---- MODULE Spec2Model ----
(***************************************************************************)
(* Task binding of the scheduler (ballista/scheduler/src/cluster/mod.rs).  *)
(* A binding round takes the executors' free task slots and the active     *)
(* jobs and binds empty partitions of running stages to executors under    *)
(* one of three policies: bias, round-robin, consistent-hash.              *)
(*                                                                         *)
(* A round is modelled step by step: one action per loop iteration of the  *)
(* policy function, the position of the round kept in pc.  The execution   *)
(* graph (fetch_running_stage) and the hash ring (ConsistentHash) are not  *)
(* part of the source files at hand; they are modelled from the design     *)
(* document.                                                               *)
(*                                                                         *)
(* Three specifications share the variables:                               *)
(*   Spec            rounds of one scheduler over a fixed set of executors *)
(*   ClusterSpec     rounds of one scheduler between register_executor,    *)
(*                   unbind_tasks and remove_executor calls                *)
(*   ConcurrentSpec  rounds of two schedulers at the same time             *)
(***************************************************************************)
EXTENDS Integers, Sequences, FiniteSets, TLC

\* ------------------------------------------------------------------ bounds
MaxSlots == 2          \* free slots of an executor at the start: 0..MaxSlots
MaxTolerance == 1      \* the tolerance handed to the consistent-hash policy: 0..MaxTolerance
NumPartitions == 2     \* partitions of a stage: 0..NumPartitions-1
MaxRounds == 2         \* binding rounds in one behaviour
MaxCalls == 3          \* register / unbind / remove calls in one behaviour
MaxReplicas == 3       \* virtual points per node of a ring looked up by itself: 0..MaxReplicas

\* --------------------------------------------------------------- universes
Executors == {"executor_1", "executor_2", "executor_3"}
Jobs == {"job_a", "job_b"}
Stages == {1, 2}
StagesOf == [j \in Jobs |-> IF j = "job_a" THEN {1} ELSE {1, 2}]   \* the running stages of a job
JobStages == {<<j, s>> : j \in Jobs, s \in Stages} \ {<<"job_a", 2>>}
Partitions == 0..(NumPartitions - 1)
JobStatuses == {"queued", "running"}

VARIABLES
    \* the state that outlives a round
    slots,              \* AvailableTaskSlots.slots / TopologyNode.available_slots per executor
    status,             \* JobInfoCache.status per job
    task_infos,         \* RunningStage.task_infos: job -> stage -> partition -> <<>> | <<TaskInfo>>
    task_id_gen,        \* the task-id generator handed out with a stage
    \* the locals of the running round
    pc,                 \* position of the round
    policy,             \* which bind_task_* function runs
    active_jobs,        \* the jobs the for loop has still to visit, in map-iteration order
    job_id,             \* the job whose graph is write-locked, <<>> or <<j>>
    black_list,         \* stage ids blacklisted for the current job
    running_stage,      \* the stage returned by fetch_running_stage, <<>> or <<s>>
    runnable_tasks,     \* partitions collected for the current pass, in order
    sorted,             \* the slots vector after the descending sort (executor ids)
    idx_slot,           \* cursor into sorted (0-based as in the code)
    total_slots,        \* total_slots of the round
    schedulable_tasks,  \* the bound tasks pushed so far
    num_replicas,       \* consistent hash: virtual points per node
    tolerance,          \* consistent hash: the caller's tolerance
    tolerance_list,     \* consistent hash: the tolerances still to run on the stage
    pre_total_slots,    \* consistent hash: total_slots when the stage was entered
    result,             \* "none" | "ok" | "err" | "panic": how the round ended
    \* what the round observed (history)
    if_skip,            \* the answers of the policy's skip predicate in this round
    scan_files,         \* the answers of get_scan_files in this round
    slots0,             \* slots at the start of the round
    task_infos0,        \* task_infos at the start of the round
    task_id_gen0,       \* task_id_gen at the start of the round
    acquired,           \* jobs whose graph write lock the round has acquired
    skip_log,           \* <<job, stage>> on which the skip predicate fired, in order
    rounds,             \* rounds started
    \* the cluster state around the rounds
    executors,          \* the executors that have an inventory entry
    capacity,           \* the task_slots an executor registered with
    outstanding,        \* tasks bound to an executor whose slot was not yet returned (history)
    stale,              \* registered again while tasks bound to it were outstanding (history)
    ncalls,             \* register / unbind / remove calls made (history)
    last_call,          \* the last such call since the last step of a round (history)
    metadata,           \* the executors whose metadata is stored
    heartbeats,         \* the executors whose latest heartbeat is stored
    executors_filter,   \* the executors argument of the round: <<>> for None, <<set>> for Some
    \* a lookup on the ring by itself
    lookup,             \* the last lookup: its key and the node it returned
    \* two rounds on the same arguments
    compared,           \* what a round with tolerance 0 and one with the tolerance return
    \* rounds of several schedulers running at the same time
    binder,             \* per scheduler: the locals of its round
    lock                \* per job: the scheduler holding the graph's write lock, or "free"

vars == <<slots, status, task_infos, task_id_gen, pc, policy, active_jobs, job_id,
          black_list, running_stage, runnable_tasks, sorted, idx_slot, total_slots,
          schedulable_tasks, num_replicas, tolerance, tolerance_list, pre_total_slots,
          result, if_skip, scan_files, slots0, task_infos0, task_id_gen0,
          acquired, skip_log, rounds, executors, capacity, outstanding, stale,
          ncalls, last_call, metadata, heartbeats, executors_filter, lookup,
          compared, binder, lock>>

persistent == <<slots, status, task_infos, task_id_gen>>
history == <<slots0, task_infos0, task_id_gen0>>
hash_locals == <<num_replicas, tolerance, tolerance_list, pre_total_slots, scan_files>>
cluster == <<executors, capacity, outstanding, stale, ncalls, last_call>>
concurrent == <<binder, lock>>
stores == <<metadata, heartbeats>>
aside == <<executors_filter, lookup, compared>>

\* ----------------------------------------------------------------- helpers
RECURSIVE SumOver(_, _)
SumOver(f, S) == IF S = {} THEN 0
                 ELSE LET x == CHOOSE y \in S : TRUE IN f[x] + SumOver(f, S \ {x})

Min(a, b) == IF a <= b THEN a ELSE b

\* All orders of a finite set, as sequences without repetition.
Orders(S) == {o \in [1..Cardinality(S) -> S] : \A i, j \in 1..Cardinality(S) : o[i] = o[j] => i = j}

\* The inventory a round is handed: the entries of every executor, or, when the round
\* is called with a set of executors, those of the executors in the set.
Unfiltered(E, filter) == E
Snapshot(E, filter) == IF filter = <<>> THEN E ELSE E \cap filter[1]
Visible == Snapshot(executors, executors_filter)

\* counts the entries, not their slots
CountEntries(sl) == Cardinality(Visible)
\* slots.iter().fold(0, |acc, s| acc + s.slots)
TotalSlots(sl) == SumOver(sl, Visible)

\* slots.sort_by(|a, b| Ord::cmp(&b.slots, &a.slots)): a stable descending sort of a
\* vector whose incoming order is the inventory's; every descending order can result.
SortForgotten(sl) == Orders(Visible)
SortDescending(sl) ==
    {o \in Orders(Visible) : \A i, j \in 1..Len(o) : i < j => sl[o[i]] >= sl[o[j]]}

\* let task_id = *task_id_gen; *task_id_gen += 1;
TaskIdGenSkips(gen) == gen + 2
TaskIdGenStuck(gen) == gen
TaskIdGenNext(gen) == gen + 1

\* black_list.push(stage_id)
PushForgotten(bl, s) == bl
Push(bl, s) == bl \cup {s}

\* create_task_info(executor_id, task_id)
TaskInfoOfNextId(executor_id, task_id) == [executor_id |-> executor_id, task_id |-> task_id + 1]
create_task_info(executor_id, task_id) == [executor_id |-> executor_id, task_id |-> task_id]

\* .iter_mut().enumerate().filter(|(_, info)| info.is_none()).take(n).collect()
RECURSIVE EmptyFrom(_, _)
EmptyFrom(infos, p) ==
    IF p >= NumPartitions THEN <<>>
    ELSE (IF infos[p] = <<>> THEN <<p>> ELSE <<>>) \o EmptyFrom(infos, p + 1)

Take(s, n) == SubSeq(s, 1, Min(Len(s), n))

\* collects nothing
NoRunnableTasks(infos, n) == <<>>
\* collects the first n partitions, empty or not
FirstPartitions(infos, n) == Take([i \in 1..NumPartitions |-> i - 1], n)
RunnableTasks(infos, n) == Take(EmptyFrom(infos, 0), n)

\* ExecutionGraph::fetch_running_stage(black_list): a running stage of the job that
\* is not blacklisted and still has an empty partition; which one is not specified.
available_tasks(infos) == Len(EmptyFrom(infos, 0))

RunningStagesIn(infos, j, bl) ==
    {s \in StagesOf[j] : s \notin bl /\ available_tasks(infos[j][s]) > 0}
fetch_running_stage(j, bl) == RunningStagesIn(task_infos, j, bl)

\* The BoundTask pushed for a partition: (executor_id, TaskDescription).
\* names partition 0 whatever partition was bound
BoundTaskOfFirstPartition(e, j, s, p, t, dc) ==
    [executor_id |-> e, job_id |-> j, stage_id |-> s, partition_id |-> 0,
     task_id |-> t, data_cache |-> dc]
BoundTask(e, j, s, p, t, dc) ==
    [executor_id |-> e, job_id |-> j, stage_id |-> s, partition_id |-> p,
     task_id |-> t, data_cache |-> dc]

\* What a round has bound, counted from its list of bound tasks.
BoundIn(tasks, e) == Cardinality({i \in 1..Len(tasks) : tasks[i].executor_id = e})

\* ------------------------------------------------------------------- Init
Schedulers == {"scheduler_1", "scheduler_2"}
\* the locals of a scheduler that has no round under way
Idle == [pc |-> "idle", snapshot |-> <<>>, slots |-> <<>>, sorted |-> <<>>, idx_slot |-> 0,
         total_slots |-> 0, active_jobs |-> <<>>, job_id |-> <<>>, black_list |-> {},
         running_stage |-> <<>>, runnable_tasks |-> <<>>, schedulable_tasks |-> <<>>,
         result |-> "none"]
NoPairs == [e \in Executors |-> 0]
NoCall == [op |-> "none", executor_id |-> "", pairs |-> NoPairs, ok |-> TRUE]

NoLookup == [key |-> "", tolerance |-> 0, node |-> <<>>]

Init ==
    /\ slots \in [Executors -> 0..MaxSlots]
    /\ status \in [Jobs -> JobStatuses]
    /\ task_infos = [j \in Jobs |-> [s \in StagesOf[j] |-> [p \in Partitions |-> <<>>]]]
    /\ task_id_gen = [j \in Jobs |-> [s \in StagesOf[j] |-> 0]]
    /\ pc = "idle"
    /\ policy = "none"
    /\ active_jobs = <<>>
    /\ job_id = <<>>
    /\ black_list = {}
    /\ running_stage = <<>>
    /\ runnable_tasks = <<>>
    /\ sorted = <<>>
    /\ idx_slot = 0
    /\ total_slots = 0
    /\ schedulable_tasks = <<>>
    /\ num_replicas = 0
    /\ tolerance = 0
    /\ tolerance_list = <<>>
    /\ pre_total_slots = 0
    /\ scan_files = {}
    /\ result = "none"
    /\ if_skip = {}
    /\ slots0 = slots
    /\ task_infos0 = task_infos
    /\ task_id_gen0 = task_id_gen
    /\ acquired = {}
    /\ skip_log = <<>>
    /\ rounds = 0
    /\ executors = Executors
    /\ capacity = [e \in Executors |-> MaxSlots]
    /\ outstanding = [e \in Executors |-> 0]
    /\ stale = [e \in Executors |-> FALSE]
    /\ ncalls = 0
    /\ last_call = NoCall
    /\ binder = [b \in Schedulers |-> Idle]
    /\ metadata = Executors
    /\ heartbeats = Executors
    /\ executors_filter = <<>>
    /\ lookup = NoLookup
    /\ compared = <<>>
    /\ lock = [j \in Jobs |-> "free"]

\* slot.slots -= 1 on a u32: a count of 0 overflows, which panics in a build with
\* overflow checks and wraps to u32::MAX in one without.  The model checker's
\* integers end at 2^31 - 1, which stands for u32::MAX here: like it, it lies
\* above every slot count an executor can start with.
U32Max == 2147483647
SubOutcomes(n) == IF n = 0 THEN {"panic", "wrap"} ELSE {"ok"}
SubForgotten(n, outcome) == n
SubOne(n, outcome) == IF outcome = "wrap" THEN U32Max ELSE IF outcome = "panic" THEN n ELSE n - 1

\* ------------------------------------------------------- the shared driver
\* What every entry of a round resets; the caller's view before the round is kept.
\* A round that panicked ends the behaviour: nothing is started after it.
BeginRound(p) ==
    /\ pc \in {"idle", "done"}
    /\ result # "panic"
    /\ rounds < MaxRounds
    /\ rounds' = rounds + 1
    /\ policy' = p
    /\ schedulable_tasks' = <<>>
    /\ slots0' = slots
    /\ task_infos0' = task_infos
    /\ task_id_gen0' = task_id_gen
    /\ acquired' = {}
    /\ skip_log' = <<>>
    /\ if_skip' = {}
    /\ scan_files' = {}
    /\ tolerance_list' = <<>>
    /\ pre_total_slots' = 0
    /\ job_id' = <<>>
    /\ black_list' = {}
    /\ running_stage' = <<>>
    /\ runnable_tasks' = <<>>

\* return: the graph guard and the locals are dropped.
Return(res) ==
    /\ pc' = "done"
    /\ result' = res
    /\ job_id' = <<>>

\* for (job_id, job_info) in active_jobs.iter(): skip a job that is not running,
\* else take its graph's write lock and start with an empty black list.
AnyJobIsRunning(j) == TRUE
JobIsRunning(j) == status[j] = "running"

for_active_jobs ==
    /\ pc = "next_job"
    /\ IF active_jobs = <<>>
       THEN /\ Return("ok")
            /\ UNCHANGED <<active_jobs, black_list, acquired>>
       ELSE LET j == Head(active_jobs) IN
            /\ active_jobs' = Tail(active_jobs)
            /\ result' = result
            /\ IF ~JobIsRunning(j)
               THEN /\ pc' = "next_job"
                    /\ job_id' = <<>>
                    /\ UNCHANGED <<black_list, acquired>>
               ELSE /\ pc' = "fetch"
                    /\ job_id' = <<j>>
                    /\ acquired' = acquired \cup {j}
                    /\ black_list' = {}
    /\ running_stage' = <<>>
    /\ runnable_tasks' = <<>>
    /\ UNCHANGED <<persistent, history, hash_locals, policy, sorted, idx_slot,
                   total_slots, schedulable_tasks, if_skip, skip_log, rounds>>

\* ------------------------------------------------------------------- bias
bind_task_bias ==
    /\ BeginRound("bias")
    /\ total_slots' = TotalSlots(slots)
    /\ idx_slot' = 0
    /\ num_replicas' = 0
    /\ tolerance' = 0
    /\ IF TotalSlots(slots) = 0
       THEN /\ pc' = "done"
            /\ result' = "ok"
            /\ sorted' = <<>>
            /\ active_jobs' = <<>>
       ELSE /\ pc' = "next_job"
            /\ result' = "none"
            /\ sorted' \in SortDescending(slots)
            /\ active_jobs' \in Orders(Jobs)
    /\ UNCHANGED persistent

bias_for_active_jobs == policy = "bias" /\ for_active_jobs

\* while let Some((running_stage, task_id_gen)) = graph.fetch_running_stage(&black_list):
\* the loop ends with the job when nothing is returned; a stage the predicate skips
\* is blacklisted; else the runnable tasks of the stage are collected.
bias_fetch_running_stage ==
    /\ policy = "bias"
    /\ pc = "fetch"
    /\ LET j == job_id[1] IN
       IF fetch_running_stage(j, black_list) = {}
       THEN /\ pc' = "next_job"
            /\ job_id' = <<>>
            /\ running_stage' = <<>>
            /\ UNCHANGED <<black_list, runnable_tasks, if_skip, skip_log>>
       ELSE \E s \in fetch_running_stage(j, black_list) :
            \E skip \in {b \in BOOLEAN : <<j, s, ~b>> \notin if_skip} :
               /\ if_skip' = if_skip \cup {<<j, s, skip>>}
               /\ job_id' = job_id
               /\ IF skip
                  THEN /\ black_list' = Push(black_list, s)
                       /\ skip_log' = Append(skip_log, <<j, s>>)
                       /\ pc' = "fetch"
                       /\ running_stage' = <<>>
                       /\ runnable_tasks' = <<>>
                  ELSE /\ pc' = "bind"
                       /\ running_stage' = <<s>>
                       /\ runnable_tasks' = RunnableTasks(task_infos[j][s], total_slots)
                       /\ UNCHANGED <<black_list, skip_log>>
    /\ UNCHANGED <<persistent, history, hash_locals, policy, active_jobs, sorted,
                   idx_slot, total_slots, schedulable_tasks, result, acquired, rounds>>

\* The index the inner while loop stops at: the first slot at or after i with
\* slots > 0, or Len(sorted) when it walks off the end.
BiasStays(sl, i) == i
BiasGivesUp(sl, i) == IF i < Len(sorted) /\ sl[sorted[i + 1]] = 0 THEN Len(sorted) ELSE i
RECURSIVE BiasAdvance(_, _)
BiasAdvance(sl, i) ==
    IF i >= Len(sorted) THEN i
    ELSE IF sl[sorted[i + 1]] = 0 THEN BiasAdvance(sl, i + 1) ELSE i

\* for (partition_id, task_info) in runnable_tasks: one iteration.
bias_bind ==
    /\ policy = "bias"
    /\ pc = "bind"
    /\ IF runnable_tasks = <<>>
       THEN /\ pc' = "fetch"
            /\ running_stage' = <<>>
            /\ UNCHANGED <<persistent, idx_slot, schedulable_tasks, runnable_tasks,
                           result, job_id>>
       ELSE LET j == job_id[1]
                s == running_stage[1]
                partition_id == Head(runnable_tasks)
                i == BiasAdvance(slots, idx_slot)
            IN  /\ idx_slot' = i
                /\ IF i >= Len(sorted)
                   THEN /\ Return("ok")
                        /\ UNCHANGED <<persistent, schedulable_tasks, runnable_tasks,
                                       running_stage>>
                   ELSE LET executor_id == sorted[i + 1]
                            task_id == task_id_gen[j][s]
                        IN  \E outcome \in SubOutcomes(slots[executor_id]) :
                            /\ task_id_gen' = [task_id_gen EXCEPT ![j][s] = TaskIdGenNext(task_id)]
                            /\ task_infos' = [task_infos EXCEPT ![j][s][partition_id] =
                                                <<create_task_info(executor_id, task_id)>>]
                            /\ schedulable_tasks' = Append(schedulable_tasks,
                                  BoundTask(executor_id, j, s, partition_id, task_id, FALSE))
                            /\ slots' = [slots EXCEPT ![executor_id] = SubOne(@, outcome)]
                            /\ status' = status
                            /\ IF outcome = "panic"
                               THEN /\ Return("panic")
                                    /\ UNCHANGED <<runnable_tasks, running_stage>>
                               ELSE /\ runnable_tasks' = Tail(runnable_tasks)
                                    /\ UNCHANGED <<pc, result, job_id, running_stage>>
    /\ UNCHANGED <<history, hash_locals, policy, active_jobs, black_list, sorted,
                   total_slots, if_skip, acquired, skip_log, rounds>>

\* ------------------------------------------------------------ round robin
bind_task_round_robin ==
    /\ BeginRound("round_robin")
    /\ total_slots' = TotalSlots(slots)
    /\ idx_slot' = 0
    /\ num_replicas' = 0
    /\ tolerance' = 0
    /\ IF TotalSlots(slots) = 0
       THEN /\ pc' = "done"
            /\ result' = "ok"
            /\ sorted' = <<>>
            /\ active_jobs' = <<>>
       ELSE /\ pc' = "next_job"
            /\ result' = "none"
            /\ sorted' \in SortDescending(slots)
            /\ active_jobs' \in Orders(Jobs)
    /\ UNCHANGED persistent

round_robin_for_active_jobs == policy = "round_robin" /\ for_active_jobs

round_robin_fetch_running_stage ==
    /\ policy = "round_robin"
    /\ pc = "fetch"
    /\ LET j == job_id[1] IN
       IF fetch_running_stage(j, black_list) = {}
       THEN /\ pc' = "next_job"
            /\ job_id' = <<>>
            /\ running_stage' = <<>>
            /\ UNCHANGED <<black_list, runnable_tasks, if_skip, skip_log>>
       ELSE \E s \in fetch_running_stage(j, black_list) :
            \E skip \in {b \in BOOLEAN : <<j, s, ~b>> \notin if_skip} :
               /\ if_skip' = if_skip \cup {<<j, s, skip>>}
               /\ job_id' = job_id
               /\ IF skip
                  THEN /\ black_list' = Push(black_list, s)
                       /\ skip_log' = Append(skip_log, <<j, s>>)
                       /\ pc' = "fetch"
                       /\ running_stage' = <<>>
                       /\ runnable_tasks' = <<>>
                  ELSE /\ pc' = "bind"
                       /\ running_stage' = <<s>>
                       /\ runnable_tasks' = RunnableTasks(task_infos[j][s], total_slots)
                       /\ UNCHANGED <<black_list, skip_log>>
    /\ UNCHANGED <<persistent, history, hash_locals, policy, active_jobs, sorted,
                   idx_slot, total_slots, schedulable_tasks, result, acquired, rounds>>

\* The two checks that move the cursor to an index "which has available slots".
CursorAtStart(sl, i) == 0
\* wraps at the end of the vector only
CursorWithoutSlotCheck(sl, i) == IF i >= Len(sorted) THEN 0 ELSE i
RoundRobinCursor(sl, i) ==
    LET i1 == IF i >= Len(sorted) THEN 0 ELSE i
    IN  IF sl[sorted[i1 + 1]] = 0 THEN 0 ELSE i1

\* for (partition_id, task_info) in runnable_tasks: one iteration.
round_robin_bind ==
    /\ policy = "round_robin"
    /\ pc = "bind"
    /\ IF runnable_tasks = <<>>
       THEN /\ pc' = "fetch"
            /\ running_stage' = <<>>
            /\ UNCHANGED <<persistent, idx_slot, total_slots, schedulable_tasks,
                           runnable_tasks, result, job_id>>
       ELSE LET j == job_id[1]
                s == running_stage[1]
                partition_id == Head(runnable_tasks)
                i == RoundRobinCursor(slots, idx_slot)
                executor_id == sorted[i + 1]
                task_id == task_id_gen[j][s]
            IN  \E outcome \in SubOutcomes(slots[executor_id]) :
                /\ task_id_gen' = [task_id_gen EXCEPT ![j][s] = TaskIdGenNext(task_id)]
                /\ task_infos' = [task_infos EXCEPT ![j][s][partition_id] =
                                    <<create_task_info(executor_id, task_id)>>]
                /\ schedulable_tasks' = Append(schedulable_tasks,
                      BoundTask(executor_id, j, s, partition_id, task_id, FALSE))
                /\ idx_slot' = i + 1
                /\ slots' = [slots EXCEPT ![executor_id] = SubOne(@, outcome)]
                /\ status' = status
                /\ IF outcome = "panic"
                   THEN /\ Return("panic")
                        /\ UNCHANGED <<total_slots, runnable_tasks, running_stage>>
                   ELSE /\ total_slots' = total_slots - 1
                        /\ IF total_slots - 1 = 0
                           THEN /\ Return("ok")
                                /\ UNCHANGED <<runnable_tasks, running_stage>>
                           ELSE /\ runnable_tasks' = Tail(runnable_tasks)
                                /\ UNCHANGED <<pc, result, job_id, running_stage>>
    /\ UNCHANGED <<history, hash_locals, policy, active_jobs, black_list, sorted,
                   if_skip, acquired, skip_log, rounds>>

\* ------------------------------------------------- the consistent hash ring
\* ConsistentHash<TopologyNode> of ballista_core, from the design document: every
\* node sits on a hashed circle at one virtual point per replica; a lookup walks
\* clockwise from the key's hashed position over at most tolerance + 1 distinct
\* nodes and returns the first valid one.
HashSize == 16
NodeNumber == [e \in Executors |->
                 IF e = "executor_1" THEN 1 ELSE IF e = "executor_2" THEN 2 ELSE 3]
\* the hash of (name(N), replica_index)
HashNode(e, r) == (<<2, 6, 11>>[NodeNumber[e]] + r * <<6, 7, 9>>[NodeNumber[e]]) % HashSize
\* the files of the scans, and the hash of a file's path
Files == <<"file--0", "file--1", "file--2">>
HashPath(f) == IF f = "file--0" THEN 3 ELSE IF f = "file--1" THEN 7 ELSE 12

\* the num_replicas a round is started with
NumReplicasChoices == {2}

VirtualNodes(E, n) == {[pos |-> HashNode(e, r), node |-> e, replica |-> r] :
                         e \in E, r \in 0..(n - 1)}

Clockwise(pos, h) == (pos - h + HashSize) % HashSize

\* clockwise from h, ties on the position by (node name, replica index)
Before(a, b, h) ==
    \/ Clockwise(a.pos, h) < Clockwise(b.pos, h)
    \/ /\ Clockwise(a.pos, h) = Clockwise(b.pos, h)
       /\ \/ NodeNumber[a.node] < NodeNumber[b.node]
          \/ a.node = b.node /\ a.replica < b.replica

\* the nodes of the virtual points in the order they are met from h
RingFrom(V, h) ==
    [i \in 1..Cardinality(V) |->
        (CHOOSE v \in V : Cardinality({b \in V : Before(b, v, h)}) = i - 1).node] \o <<>>

\* the physical nodes of a walk, each at its first virtual point
EveryPoint(walk, seen) == walk
DistinctNodes(walk, seen) ==
    LET first == {i \in 1..Len(walk) :
                    walk[i] \notin seen /\ \A j \in 1..(i - 1) : walk[j] # walk[i]}
    IN  [k \in 1..Cardinality(first) |->
            walk[CHOOSE i \in first : Cardinality({j \in first : j < i}) = k - 1]] \o <<>>

\* impl Node for TopologyNode: is_valid
NodeAlwaysValid(sl, e) == TRUE
is_valid(sl, e) == sl[e] > 0

\* the distinct nodes met clockwise from the hashed position of a file's path
Keys == {Files[i] : i \in 1..Len(Files)}
Walk == [x \in (SUBSET Executors) \X (0..MaxReplicas) \X Keys |->
            DistinctNodes(RingFrom(VirtualNodes(x[1], x[2]), HashPath(x[3])), {})] @@ <<>>

\* <<>> for None, <<node>> for Some(node)
get_mut_with_tolerance(sl, n, f, tol) ==
    LET window == Take(Walk[<<Visible, n, f>>], tol + 1)
        valid == {i \in 1..Len(window) : is_valid(sl, window[i])}
    IN  IF valid = {} THEN <<>>
        ELSE <<window[CHOOSE i \in valid : \A k \in valid : i <= k]>>

\* --------------------------------------------------------- get_scan_files
\* What get_scan_files(job_id, plan) can answer for a stage: an error, no scan, one
\* scan, two scans; a scan lists the files of each partition.  A scan may list no
\* file for its last partition, or miss the last partition.
FileOf(j, s, p) == Files[(((IF j = "job_a" THEN 0 ELSE 1) + s + p) % Len(Files)) + 1]
FullScan(j, s) == [i \in 1..NumPartitions |-> <<FileOf(j, s, i - 1)>>]
HollowScan(j, s) == [i \in 1..NumPartitions |->
                       IF i = NumPartitions THEN <<>> ELSE <<FileOf(j, s, i - 1)>>]
ShortScan(j, s) == [i \in 1..(NumPartitions - 1) |-> <<FileOf(j, s, i - 1)>>]

ScanFilesResults(j, s) ==
    {[ok |-> FALSE, scans |-> <<>>]}
    \cup {[ok |-> TRUE, scans |-> ss] :
            ss \in {<<>>, <<FullScan(j, s)>>, <<FullScan(j, s), FullScan(j, s)>>,
                    <<HollowScan(j, s)>>, <<ShortScan(j, s)>>}}

\* get_scan_files is a function: it answers the same for the same stage in a round.
get_scan_files(j, s) ==
    {r \in ScanFilesResults(j, s) : \A t \in scan_files : (t[1] = j /\ t[2] = s) => t[3] = r}

SkipOnlyWithoutScan(scans) == Len(scans) = 0
is_skip_consistent_hash(scans) == Len(scans) = 0 \/ Len(scans) > 1

\* let tolerance_list = vec![0, tolerance];
ToleranceOnly(tol) == <<tol>>
ToleranceExact(tol) == <<0>>
ToleranceList(tol) == <<0, tol>>

\* -------------------------------------------------------- consistent hash
bind_task_consistent_hash ==
    /\ BeginRound("consistent_hash")
    /\ total_slots' = TotalSlots(slots)
    /\ idx_slot' = 0
    /\ sorted' = <<>>
    /\ IF TotalSlots(slots) = 0
       THEN /\ pc' = "done"
            /\ result' = "ok"
            /\ active_jobs' = <<>>
            /\ num_replicas' = 0
            /\ tolerance' = 0
       ELSE /\ pc' = "next_job"
            /\ result' = "none"
            /\ active_jobs' \in Orders(Jobs)
            /\ num_replicas' \in NumReplicasChoices
            /\ tolerance' \in 0..MaxTolerance
    /\ UNCHANGED persistent

consistent_hash_for_active_jobs == policy = "consistent_hash" /\ for_active_jobs

consistent_hash_fetch_running_stage ==
    /\ policy = "consistent_hash"
    /\ pc = "fetch"
    /\ LET j == job_id[1] IN
       IF fetch_running_stage(j, black_list) = {}
       THEN /\ pc' = "next_job"
            /\ job_id' = <<>>
            /\ running_stage' = <<>>
            /\ UNCHANGED <<black_list, runnable_tasks, scan_files, skip_log, result,
                           tolerance_list, pre_total_slots>>
       ELSE \E s \in fetch_running_stage(j, black_list) :
            \E r \in get_scan_files(j, s) :
               /\ scan_files' = scan_files \cup {<<j, s, r>>}
               /\ IF ~r.ok
                  THEN /\ Return("err")
                       /\ UNCHANGED <<black_list, runnable_tasks, skip_log, running_stage,
                                      tolerance_list, pre_total_slots>>
                  ELSE IF is_skip_consistent_hash(r.scans)
                  THEN /\ black_list' = Push(black_list, s)
                       /\ skip_log' = Append(skip_log, <<j, s>>)
                       /\ pc' = "fetch"
                       /\ running_stage' = <<>>
                       /\ runnable_tasks' = <<>>
                       /\ UNCHANGED <<job_id, result, tolerance_list, pre_total_slots>>
                  ELSE /\ pc' = "bind"
                       /\ running_stage' = <<s>>
                       /\ pre_total_slots' = total_slots
                       /\ tolerance_list' = ToleranceList(tolerance)
                       /\ runnable_tasks' = RunnableTasks(task_infos[j][s], total_slots)
                       /\ UNCHANGED <<job_id, result, black_list, skip_log>>
    /\ UNCHANGED <<persistent, history, num_replicas, tolerance, policy, active_jobs, sorted,
                   idx_slot, total_slots, schedulable_tasks, if_skip, acquired, rounds>>

\* let data_cache = tolerance == 0;
DataCacheAlways(tol) == TRUE
DataCacheNever(tol) == FALSE
DataCache(tol) == tol = 0

\* &scan_files[0] of the stage the round is in
ScanOf(j, s) == (CHOOSE t \in scan_files : t[1] = j /\ t[2] = s)[3].scans[1]

\* if pre_total_slots == total_slots: the pass over the stage took no slot
AlwaysBlacklist(pre, now) == TRUE
NothingBound(pre, now) == pre = now
\* for tolerance in tolerance_list { for (partition_id, task_info) in runnable_tasks {..} }:
\* one iteration of the inner loop, or the step to the next tolerance, or the end of
\* the pass over the stage.
consistent_hash_bind ==
    /\ policy = "consistent_hash"
    /\ pc = "bind"
    /\ LET j == job_id[1]
           s == running_stage[1]
       IN
       IF runnable_tasks = <<>>
       THEN /\ IF Len(tolerance_list) > 1
               THEN /\ tolerance_list' = Tail(tolerance_list)
                    /\ runnable_tasks' = RunnableTasks(task_infos[j][s], total_slots)
                    /\ UNCHANGED <<pc, running_stage, black_list>>
               ELSE /\ black_list' = IF NothingBound(pre_total_slots, total_slots)
                                     THEN Push(black_list, s) ELSE black_list
                    /\ pc' = "fetch"
                    /\ running_stage' = <<>>
                    /\ UNCHANGED <<tolerance_list, runnable_tasks>>
            /\ UNCHANGED <<persistent, total_slots, schedulable_tasks, result, job_id>>
       ELSE LET partition_id == Head(runnable_tasks)
                scan == ScanOf(j, s)
            IN
            IF partition_id >= Len(scan) \/ scan[partition_id + 1] = <<>>
            THEN \* index out of bounds, or assert!(!partition_files.is_empty())
                 /\ Return("panic")
                 /\ UNCHANGED <<persistent, total_slots, schedulable_tasks, runnable_tasks,
                                running_stage, black_list, tolerance_list>>
            ELSE LET file_for_hash == scan[partition_id + 1][1]
                     node == get_mut_with_tolerance(slots, num_replicas, file_for_hash,
                                                    Head(tolerance_list))
                 IN
                 IF node = <<>>
                 THEN /\ runnable_tasks' = Tail(runnable_tasks)
                      /\ UNCHANGED <<persistent, total_slots, schedulable_tasks, result, job_id,
                                     pc, running_stage, black_list, tolerance_list>>
                 ELSE LET executor_id == node[1]
                          task_id == task_id_gen[j][s]
                          data_cache == DataCache(Head(tolerance_list))
                      IN  \E outcome \in SubOutcomes(slots[executor_id]) :
                          /\ task_id_gen' = [task_id_gen EXCEPT ![j][s] = TaskIdGenNext(task_id)]
                          /\ task_infos' = [task_infos EXCEPT ![j][s][partition_id] =
                                              <<create_task_info(executor_id, task_id)>>]
                          /\ schedulable_tasks' = Append(schedulable_tasks,
                                BoundTask(executor_id, j, s, partition_id, task_id, data_cache))
                          /\ slots' = [slots EXCEPT ![executor_id] = SubOne(@, outcome)]
                          /\ status' = status
                          /\ UNCHANGED <<black_list, tolerance_list>>
                          /\ IF outcome = "panic"
                             THEN /\ Return("panic")
                                  /\ UNCHANGED <<total_slots, runnable_tasks, running_stage>>
                             ELSE /\ total_slots' = total_slots - 1
                                  /\ IF total_slots - 1 = 0
                                     THEN /\ Return("ok")
                                          /\ UNCHANGED <<runnable_tasks, running_stage>>
                                     ELSE /\ runnable_tasks' = Tail(runnable_tasks)
                                          /\ UNCHANGED <<pc, result, job_id, running_stage>>
    /\ UNCHANGED <<history, num_replicas, tolerance, pre_total_slots, scan_files, policy,
                   active_jobs, sorted, idx_slot, if_skip, acquired, skip_log, rounds>>

\* ------------------------------------------------------------------- Next
Next ==
    \/ bind_task_bias /\ UNCHANGED <<cluster, concurrent, stores, aside>>
    \/ bias_for_active_jobs /\ UNCHANGED <<cluster, concurrent, stores, aside>>
    \/ bias_fetch_running_stage /\ UNCHANGED <<cluster, concurrent, stores, aside>>
    \/ bias_bind /\ UNCHANGED <<cluster, concurrent, stores, aside>>
    \/ bind_task_round_robin /\ UNCHANGED <<cluster, concurrent, stores, aside>>
    \/ round_robin_for_active_jobs /\ UNCHANGED <<cluster, concurrent, stores, aside>>
    \/ round_robin_fetch_running_stage /\ UNCHANGED <<cluster, concurrent, stores, aside>>
    \/ round_robin_bind /\ UNCHANGED <<cluster, concurrent, stores, aside>>
    \/ bind_task_consistent_hash /\ UNCHANGED <<cluster, concurrent, stores, aside>>
    \/ consistent_hash_for_active_jobs /\ UNCHANGED <<cluster, concurrent, stores, aside>>
    \/ consistent_hash_fetch_running_stage /\ UNCHANGED <<cluster, concurrent, stores, aside>>
    \/ consistent_hash_bind /\ UNCHANGED <<cluster, concurrent, stores, aside>>

Spec == Init /\ [][Next]_vars

\* ---------------------------------------------------------- cluster state
\* ClusterState around the rounds of one scheduler, from the moment every executor
\* has registered: executors register again, are removed, and slots of finished tasks
\* are handed back.  The trait's implementations are not
\* part of the source files at hand; the operations follow the trait's comments and
\* the design document.  A call runs between rounds: a round has the inventory to
\* itself.
ClusterInit ==
    /\ capacity \in [Executors -> 1..MaxSlots]
    /\ slots = capacity
    /\ status = [j \in Jobs |-> IF j = "job_a" THEN "running" ELSE "queued"]
    /\ task_infos = [j \in Jobs |-> [s \in StagesOf[j] |-> [p \in Partitions |-> <<>>]]]
    /\ task_id_gen = [j \in Jobs |-> [s \in StagesOf[j] |-> 0]]
    /\ pc = "idle"
    /\ policy = "none"
    /\ active_jobs = <<>>
    /\ job_id = <<>>
    /\ black_list = {}
    /\ running_stage = <<>>
    /\ runnable_tasks = <<>>
    /\ sorted = <<>>
    /\ idx_slot = 0
    /\ total_slots = 0
    /\ schedulable_tasks = <<>>
    /\ num_replicas = 0
    /\ tolerance = 0
    /\ tolerance_list = <<>>
    /\ pre_total_slots = 0
    /\ scan_files = {}
    /\ result = "none"
    /\ if_skip = {}
    /\ slots0 = slots
    /\ task_infos0 = task_infos
    /\ task_id_gen0 = task_id_gen
    /\ acquired = {}
    /\ skip_log = <<>>
    /\ rounds = 0
    /\ executors = Executors
    /\ outstanding = [e \in Executors |-> 0]
    /\ stale = [e \in Executors |-> FALSE]
    /\ ncalls = 0
    /\ last_call = NoCall
    /\ binder = [b \in Schedulers |-> Idle]
    /\ metadata = Executors
    /\ heartbeats = Executors
    /\ executors_filter = <<>>
    /\ lookup = NoLookup
    /\ compared = <<>>
    /\ lock = [j \in Jobs |-> "free"]

\* What a call leaves alone: the graphs and everything of the last round.
round_state == <<status, task_infos, task_id_gen, pc, policy, active_jobs, job_id, black_list,
                 running_stage, runnable_tasks, sorted, idx_slot, total_slots,
                 schedulable_tasks, num_replicas, tolerance, tolerance_list, pre_total_slots,
                 result, if_skip, scan_files, slots0, task_infos0, task_id_gen0, acquired,
                 skip_log, rounds>>

BetweenRounds ==
    /\ pc \in {"idle", "done"}
    /\ result # "panic"
    /\ ncalls < MaxCalls

Called(op, e, pairs, ok) ==
    /\ ncalls' = ncalls + 1
    /\ last_call' = [op |-> op, executor_id |-> e, pairs |-> pairs, ok |-> ok]

\* register_executor(metadata, spec): insert or overwrite the entry; the slot count
\* starts from spec.task_slots.
InitialSlotsOneMore(task_slots) == task_slots + 1
InitialSlots(task_slots) == task_slots

register_executor ==
    /\ BetweenRounds
    /\ \E e \in Executors, task_slots \in 1..MaxSlots :
          /\ executors' = executors \cup {e}
          /\ capacity' = [capacity EXCEPT ![e] = task_slots]
          /\ slots' = [slots EXCEPT ![e] = InitialSlots(task_slots)]
          /\ stale' = [stale EXCEPT ![e] = @ \/ outstanding[e] > 0]
          /\ metadata' = metadata \cup {e}
          /\ heartbeats' = heartbeats \cup {e}
          /\ Called("register", e, NoPairs, TRUE)
    /\ UNCHANGED <<round_state, outstanding, concurrent, aside>>

\* remove_executor(executor_id): evict the metadata, the slots entry and the heartbeat;
\* removing an absent executor succeeds.
EvictNothing(S, e) == S
Evict(S, e) == S \ {e}

remove_executor ==
    /\ BetweenRounds
    /\ \E e \in Executors :
          /\ executors' = Evict(executors, e)
          /\ metadata' = Evict(metadata, e)
          /\ heartbeats' = Evict(heartbeats, e)
          /\ capacity' = [capacity EXCEPT ![e] = 0]
          /\ slots' = [slots EXCEPT ![e] = 0]
          /\ Called("remove", e, NoPairs, TRUE)
    /\ UNCHANGED <<round_state, outstanding, stale, concurrent, aside>>

\* get_executor_metadata(executor_id): the metadata, or a NotFound error
get_executor_metadata(md, id) ==
    IF id \in md THEN [ok |-> TRUE, error |-> ""] ELSE [ok |-> FALSE, error |-> "NotFound"]
\* get_executor_heartbeat(executor_id): <<>> for None
get_executor_heartbeat(hb, id) == IF id \in hb THEN <<id>> ELSE <<>>
\* unbind_tasks(executor_slots): "Either all reservations are cancelled or none are".
\* pairs gives the count handed back per executor (0: not in the list).  The call
\* fails when a named executor has no entry.
Named(pairs) == {e \in Executors : pairs[e] > 0}
UnbindKnown(E, sl, pairs) ==
    [ok |-> Named(pairs) \subseteq E,
     slots |-> [e \in Executors |-> IF e \in E THEN sl[e] + pairs[e] ELSE sl[e]]]
Unbind(E, sl, pairs) ==
    IF Named(pairs) \subseteq E
    THEN [ok |-> TRUE, slots |-> [e \in Executors |-> sl[e] + pairs[e]]]
    ELSE [ok |-> FALSE, slots |-> sl]

\* The slots handed back are slots of tasks bound before and not yet handed back.
unbind_tasks ==
    /\ BetweenRounds
    /\ \E pairs \in [Executors -> 0..MaxSlots] :
          /\ \A e \in Executors : pairs[e] <= outstanding[e]
          /\ LET r == Unbind(executors, slots, pairs) IN
             /\ slots' = r.slots
             /\ outstanding' = IF r.ok THEN [e \in Executors |-> outstanding[e] - pairs[e]]
                               ELSE outstanding
             /\ Called("unbind", "", pairs, r.ok)
    /\ UNCHANGED <<round_state, executors, capacity, stale, concurrent, stores, aside>>

\* A step of a round, seen from the cluster state: the tasks it binds are outstanding.
InCluster ==
    /\ outstanding' = [e \in Executors |->
                         outstanding[e] + BoundIn(schedulable_tasks', e)
                           - (IF pc \in {"idle", "done"} THEN 0 ELSE BoundIn(schedulable_tasks, e))]
    /\ last_call' = NoCall
    /\ UNCHANGED <<executors, capacity, stale, ncalls, concurrent, stores, aside>>

ClusterNext ==
    \/ bind_task_bias /\ InCluster
    \/ bias_for_active_jobs /\ InCluster
    \/ bias_fetch_running_stage /\ InCluster
    \/ bias_bind /\ InCluster
    \/ bind_task_round_robin /\ InCluster
    \/ round_robin_for_active_jobs /\ InCluster
    \/ round_robin_fetch_running_stage /\ InCluster
    \/ round_robin_bind /\ InCluster
    \/ bind_task_consistent_hash /\ InCluster
    \/ consistent_hash_for_active_jobs /\ InCluster
    \/ consistent_hash_fetch_running_stage /\ InCluster
    \/ consistent_hash_bind /\ InCluster
    \/ register_executor
    \/ remove_executor
    \/ unbind_tasks

ClusterSpec == ClusterInit /\ [][ClusterNext]_vars

\* ------------------------------------------------------- concurrent rounds
\* Several schedulers run bind_schedulable_tasks with the bias policy against the same
\* inventory and the same jobs.  A round works on the snapshot of the inventory it took
\* at its start and applies its slot deltas to the inventory in one atomic batch
\* decrement at its end; that part of ClusterState is not in the source files at hand
\* and follows the design document.  The policy is bind_task_bias, step by step, with
\* the skip predicate of its callers, |_| false; each job's graph sits behind its
\* write lock.
ConcurrentInit ==
    /\ slots \in [Executors -> 0..MaxSlots]
    /\ status \in [Jobs -> JobStatuses]
    /\ task_infos = [j \in Jobs |-> [s \in StagesOf[j] |-> [p \in Partitions |-> <<>>]]]
    /\ task_id_gen = [j \in Jobs |-> [s \in StagesOf[j] |-> 0]]
    /\ pc = "idle"
    /\ policy = "none"
    /\ active_jobs = <<>>
    /\ job_id = <<>>
    /\ black_list = {}
    /\ running_stage = <<>>
    /\ runnable_tasks = <<>>
    /\ sorted = <<>>
    /\ idx_slot = 0
    /\ total_slots = 0
    /\ schedulable_tasks = <<>>
    /\ num_replicas = 0
    /\ tolerance = 0
    /\ tolerance_list = <<>>
    /\ pre_total_slots = 0
    /\ scan_files = {}
    /\ result = "none"
    /\ if_skip = {}
    /\ slots0 = slots
    /\ task_infos0 = task_infos
    /\ task_id_gen0 = task_id_gen
    /\ acquired = {}
    /\ skip_log = <<>>
    /\ rounds = 0
    /\ executors = Executors
    /\ capacity = [e \in Executors |-> MaxSlots]
    /\ outstanding = [e \in Executors |-> 0]
    /\ stale = [e \in Executors |-> FALSE]
    /\ ncalls = 0
    /\ last_call = NoCall
    /\ binder = [b \in Schedulers |-> Idle]
    /\ metadata = Executors
    /\ heartbeats = Executors
    /\ executors_filter = <<>>
    /\ lookup = NoLookup
    /\ compared = <<>>
    /\ lock = [j \in Jobs |-> "free"]

\* what the concurrent rounds leave alone: the locals of the single round and the
\* cluster's call history
single == <<status, pc, policy, active_jobs, job_id, black_list, running_stage,
            runnable_tasks, sorted, idx_slot, total_slots, schedulable_tasks, num_replicas,
            tolerance, tolerance_list, pre_total_slots, result, if_skip, scan_files, slots0,
            task_infos0, task_id_gen0, acquired, skip_log, rounds, cluster, stores, aside>>

\* bind_schedulable_tasks: snapshot the inventory, then bind_task_bias up to the sort.
snapshot_slots(b) ==
    /\ binder[b].pc = "idle"
    /\ LET total == TotalSlots(slots) IN
       IF total = 0
       THEN binder' = [binder EXCEPT ![b] =
                         [Idle EXCEPT !.pc = "done", !.result = "ok",
                                      !.snapshot = slots, !.slots = slots]]
       ELSE \E srt \in SortDescending(slots), jobs \in Orders(Jobs) :
               binder' = [binder EXCEPT ![b] =
                            [Idle EXCEPT !.pc = "next_job", !.snapshot = slots, !.slots = slots,
                                         !.total_slots = total, !.sorted = srt,
                                         !.active_jobs = jobs]]
    /\ UNCHANGED <<slots, task_infos, task_id_gen, lock, single>>

\* job_info.execution_graph.write().await returns when no one holds the lock
LockIgnored(j) == TRUE
LockFree(j) == lock[j] = "free"
\* the guard `graph` goes out of scope at the end of the job's iteration, on a return
\* and on a panic
GuardKept(lk, j) == lk
DropGuard(lk, j) == [lk EXCEPT ![j] = "free"]

\* for (job_id, job_info) in active_jobs.iter(), up to the write lock; after the last
\* job the round goes to apply its deltas.
lock_next_job(b) ==
    LET B == binder[b] IN
    /\ B.pc = "next_job"
    /\ IF B.active_jobs = <<>>
       THEN /\ binder' = [binder EXCEPT ![b] = [B EXCEPT !.pc = "commit"]]
            /\ lock' = lock
       ELSE LET j == Head(B.active_jobs) IN
            IF ~JobIsRunning(j)
            THEN /\ binder' = [binder EXCEPT ![b] = [B EXCEPT !.active_jobs = Tail(@)]]
                 /\ lock' = lock
            ELSE /\ LockFree(j)
                 /\ lock' = [lock EXCEPT ![j] = b]
                 /\ binder' = [binder EXCEPT ![b] =
                                 [B EXCEPT !.active_jobs = Tail(@), !.pc = "fetch",
                                           !.job_id = <<j>>, !.black_list = {}]]
    /\ UNCHANGED <<slots, task_infos, task_id_gen, single>>

\* while let Some(..) = graph.fetch_running_stage(&black_list); the guard is dropped
\* when the loop ends.
locked_fetch_running_stage(b) ==
    LET B == binder[b]
        j == B.job_id[1]
    IN
    /\ B.pc = "fetch"
    /\ IF fetch_running_stage(j, B.black_list) = {}
       THEN /\ binder' = [binder EXCEPT ![b] =
                            [B EXCEPT !.pc = "next_job", !.job_id = <<>>,
                                      !.running_stage = <<>>]]
            /\ lock' = DropGuard(lock, j)
       ELSE /\ \E s \in fetch_running_stage(j, B.black_list) :
                 binder' = [binder EXCEPT ![b] =
                              [B EXCEPT !.pc = "bind", !.running_stage = <<s>>,
                                        !.runnable_tasks =
                                            RunnableTasks(task_infos[j][s], B.total_slots)]]
            /\ lock' = lock
    /\ UNCHANGED <<slots, task_infos, task_id_gen, single>>

\* while slot.slots == 0 { idx_slot += 1; .. }, on the round's own slots
RECURSIVE AdvanceIn(_, _, _)
AdvanceIn(srt, sl, i) ==
    IF i >= Len(srt) THEN i
    ELSE IF sl[srt[i + 1]] = 0 THEN AdvanceIn(srt, sl, i + 1) ELSE i

\* for (partition_id, task_info) in runnable_tasks: one iteration, the writes going
\* to the locked graph and to the round's snapshot.
locked_bind(b) ==
    LET B == binder[b]
        j == B.job_id[1]
        s == B.running_stage[1]
    IN
    /\ B.pc = "bind"
    /\ IF B.runnable_tasks = <<>>
       THEN /\ binder' = [binder EXCEPT ![b] = [B EXCEPT !.pc = "fetch", !.running_stage = <<>>]]
            /\ UNCHANGED <<task_infos, task_id_gen, lock>>
       ELSE LET partition_id == Head(B.runnable_tasks)
                i == AdvanceIn(B.sorted, B.slots, B.idx_slot)
            IN
            IF i >= Len(B.sorted)
            THEN /\ binder' = [binder EXCEPT ![b] =
                                 [B EXCEPT !.pc = "commit", !.idx_slot = i, !.job_id = <<>>]]
                 /\ lock' = DropGuard(lock, j)
                 /\ UNCHANGED <<task_infos, task_id_gen>>
            ELSE LET executor_id == B.sorted[i + 1]
                     task_id == task_id_gen[j][s]
                 IN  \E outcome \in SubOutcomes(B.slots[executor_id]) :
                     /\ task_id_gen' = [task_id_gen EXCEPT ![j][s] = TaskIdGenNext(task_id)]
                     /\ task_infos' = [task_infos EXCEPT ![j][s][partition_id] =
                                         <<create_task_info(executor_id, task_id)>>]
                     /\ lock' = IF outcome = "panic" THEN DropGuard(lock, j) ELSE lock
                     /\ binder' = [binder EXCEPT ![b] =
                          [B EXCEPT !.idx_slot = i,
                                    !.schedulable_tasks = Append(@,
                                        BoundTask(executor_id, j, s, partition_id, task_id, FALSE)),
                                    !.slots = [@ EXCEPT ![executor_id] = SubOne(@, outcome)],
                                    !.runnable_tasks = IF outcome = "panic" THEN @ ELSE Tail(@),
                                    !.pc = IF outcome = "panic" THEN "done" ELSE @,
                                    !.result = IF outcome = "panic" THEN "panic" ELSE @,
                                    !.job_id = IF outcome = "panic" THEN <<>> ELSE @]]
    /\ UNCHANGED <<slots, single>>

\* The atomic batch decrement: every executor's count goes down by what the round
\* took from its snapshot, or, when a count has meanwhile fallen below that, the
\* round fails and nothing is applied.
OverwriteSlots(inv, snap, sl) == [ok |-> TRUE, slots |-> sl]
ApplyDeltas(inv, snap, sl) ==
    IF \A e \in Executors : inv[e] >= snap[e] - sl[e]
    THEN [ok |-> TRUE, slots |-> [e \in Executors |-> inv[e] - (snap[e] - sl[e])]]
    ELSE [ok |-> FALSE, slots |-> inv]

apply_slot_deltas(b) ==
    LET B == binder[b]
        r == ApplyDeltas(slots, B.snapshot, B.slots)
    IN
    /\ B.pc = "commit"
    /\ slots' = r.slots
    /\ binder' = [binder EXCEPT ![b] =
                    [B EXCEPT !.pc = "done", !.result = IF r.ok THEN "ok" ELSE "err"]]
    /\ UNCHANGED <<task_infos, task_id_gen, lock, single>>

ConcurrentNext ==
    \E b \in Schedulers :
        \/ snapshot_slots(b)
        \/ lock_next_job(b)
        \/ locked_fetch_running_stage(b)
        \/ locked_bind(b)
        \/ apply_slot_deltas(b)

ConcurrentSpec == ConcurrentInit /\ [][ConcurrentNext]_vars

\* A round once started is an async call polled to its end, and a writer waiting for a
\* graph's lock gets it once the lock stays free: a step of a started round that
\* remains possible is taken.
RoundStep(b) ==
    \/ lock_next_job(b)
    \/ locked_fetch_running_stage(b)
    \/ locked_bind(b)
    \/ apply_slot_deltas(b)
ConcurrentFairSpec ==
    ConcurrentInit /\ [][ConcurrentNext]_vars /\ \A b \in Schedulers : WF_vars(RoundStep(b))
\* A round is a call that runs on once started: a step that is possible is taken.
FairSpec == Init /\ [][Next]_vars /\ WF_vars(Next)

\* ------------------------------------------------- a round on a filtered inventory
\* bind_schedulable_tasks(distribution, active_jobs, executors): "If `executors` is
\* provided, only bind slots from the specified executor IDs".  The round is handed
\* the entries of the executors in the set and nothing else; the implementations of
\* the trait are not part of the source files at hand.
AtRest ==
    /\ pc = "idle"
    /\ policy = "none"
    /\ active_jobs = <<>>
    /\ job_id = <<>>
    /\ black_list = {}
    /\ running_stage = <<>>
    /\ runnable_tasks = <<>>
    /\ sorted = <<>>
    /\ idx_slot = 0
    /\ total_slots = 0
    /\ schedulable_tasks = <<>>
    /\ tolerance = 0
    /\ tolerance_list = <<>>
    /\ pre_total_slots = 0
    /\ scan_files = {}
    /\ result = "none"
    /\ if_skip = {}
    /\ slots0 = slots
    /\ task_infos0 = task_infos
    /\ task_id_gen0 = task_id_gen
    /\ acquired = {}
    /\ skip_log = <<>>
    /\ rounds = 0
    /\ outstanding = [e \in Executors |-> 0]
    /\ stale = [e \in Executors |-> FALSE]
    /\ ncalls = 0
    /\ last_call = NoCall
    /\ lookup = NoLookup
    /\ compared = <<>>
    /\ binder = [b \in Schedulers |-> Idle]
    /\ lock = [j \in Jobs |-> "free"]

ExecutorsArguments == {<<>>} \cup {<<F>> : F \in SUBSET Executors}

FilterInit ==
    /\ slots \in [Executors -> 0..MaxSlots]
    /\ status = [j \in Jobs |-> IF j = "job_a" THEN "running" ELSE "queued"]
    /\ task_infos = [j \in Jobs |-> [s \in StagesOf[j] |-> [p \in Partitions |-> <<>>]]]
    /\ task_id_gen = [j \in Jobs |-> [s \in StagesOf[j] |-> 0]]
    /\ executors = Executors
    /\ capacity = [e \in Executors |-> MaxSlots]
    /\ metadata = Executors
    /\ heartbeats = Executors
    /\ executors_filter \in ExecutorsArguments
    /\ num_replicas = 0
    /\ AtRest

FilterSpec == FilterInit /\ [][Next]_vars
\* --------------------------------------------------------- the ring by itself
\* Lookups on a ring built over any set of nodes with any number of replicas, each
\* followed by what the policy does with the node it gets (mod.rs:631-658): take one
\* of its slots.
RingInit ==
    /\ executors \in SUBSET Executors
    /\ slots \in {sl \in [Executors -> 0..MaxSlots] : \A e \in Executors \ executors : sl[e] = 0}
    /\ num_replicas \in 0..MaxReplicas
    /\ status = [j \in Jobs |-> "queued"]
    /\ task_infos = [j \in Jobs |-> [s \in StagesOf[j] |-> [p \in Partitions |-> <<>>]]]
    /\ task_id_gen = [j \in Jobs |-> [s \in StagesOf[j] |-> 0]]
    /\ capacity = [e \in Executors |-> MaxSlots]
    /\ metadata = executors
    /\ heartbeats = executors
    /\ executors_filter = <<>>
    /\ AtRest

ring_lookup ==
    /\ \E key \in Keys, tol \in 0..Cardinality(Executors) :
          LET node == get_mut_with_tolerance(slots, num_replicas, key, tol) IN
          /\ lookup' = [key |-> key, tolerance |-> tol, node |-> node]
          /\ slots' = IF node = <<>> THEN slots ELSE [slots EXCEPT ![node[1]] = @ - 1]
    /\ UNCHANGED <<status, task_infos, task_id_gen, history, hash_locals, pc, policy,
                   active_jobs, job_id, black_list, running_stage, runnable_tasks, sorted,
                   idx_slot, total_slots, schedulable_tasks, result, if_skip, acquired,
                   skip_log, rounds, cluster, stores, executors_filter, compared,
                   concurrent>>

RingNext == ring_lookup

RingSpec == RingInit /\ [][RingNext]_vars
\* --------------------------------------------- a round as a function of its arguments
\* bind_task_consistent_hash computed in one go from the nodes' slots, the graphs, the
\* order of active_jobs, the ring, the tolerance and the answers of get_scan_files, so
\* that two rounds on the same arguments can be laid side by side.  a is the record
\* of what does not change in the round; st is what the round has done so far.
\* fetch_running_stage returns the eligible stage with the lowest or the highest id.
PickStage(S, pick) ==
    IF pick = "lowest" THEN CHOOSE s \in S : \A r \in S : s <= r
    ELSE CHOOSE s \in S : \A r \in S : s >= r

RECURSIVE HashPartitions(_, _, _, _, _, _, _)
RECURSIVE HashPasses(_, _, _, _, _, _)
RECURSIVE HashStages(_, _, _, _)
RECURSIVE HashJobs(_, _, _)

\* if total_slots == 0 { return Ok(..) }, else the next partition
AfterBind(a, bound, j, s, scan, tol, parts) ==
    IF bound.total_slots = 0 THEN [bound EXCEPT !.result = "ok"]
    ELSE HashPartitions(a, bound, j, s, scan, tol, Tail(parts))

\* if let Some(node) = node_manager.get_mut_with_tolerance(..) { .. }
BindOn(a, st, j, s, scan, tol, parts, partition_id, node, task_id) ==
    IF node = <<>> THEN HashPartitions(a, st, j, s, scan, tol, Tail(parts))
    ELSE AfterBind(a, [st EXCEPT
                          !.task_id_gen[j][s] = TaskIdGenNext(task_id),
                          !.task_infos[j][s][partition_id] =
                              <<create_task_info(node[1], task_id)>>,
                          !.schedulable_tasks = Append(@,
                              BoundTask(node[1], j, s, partition_id, task_id, DataCache(tol))),
                          !.slots[node[1]] = SubOne(@, "ok"),
                          !.total_slots = @ - 1],
                   j, s, scan, tol, parts)

\* let partition_files = &scan_files[partition_id]; assert!(!partition_files.is_empty());
LookUp(a, st, j, s, scan, tol, parts, partition_id) ==
    IF partition_id >= Len(scan) \/ scan[partition_id + 1] = <<>>
    THEN [st EXCEPT !.result = "panic"]
    ELSE BindOn(a, st, j, s, scan, tol, parts, partition_id,
                get_mut_with_tolerance(st.slots, a.num_replicas, scan[partition_id + 1][1], tol),
                st.task_id_gen[j][s])

\* for (partition_id, task_info) in runnable_tasks { .. }
HashPartitions(a, st, j, s, scan, tol, parts) ==
    IF parts = <<>> THEN st
    ELSE LookUp(a, st, j, s, scan, tol, parts, Head(parts))

\* a return inside a pass ends the round, else the next tolerance
AfterPass(a, after, j, s, scan, tols) ==
    IF after.result # "none" THEN after
    ELSE HashPasses(a, after, j, s, scan, Tail(tols))

\* for tolerance in tolerance_list { .. }
HashPasses(a, st, j, s, scan, tols) ==
    IF tols = <<>> THEN st
    ELSE AfterPass(a, HashPartitions(a, st, j, s, scan, Head(tols),
                                     RunnableTasks(st.task_infos[j][s], st.total_slots)),
                   j, s, scan, tols)

\* if pre_total_slots == total_slots { black_list.push(running_stage.stage_id); }
AfterStage(a, st, after, j, bl, s) ==
    IF after.result # "none" THEN after
    ELSE HashStages(a, after, j,
                    IF NothingBound(st.total_slots, after.total_slots) THEN Push(bl, s) ELSE bl)

\* let scan_files = get_scan_files(..)?; if is_skip_consistent_hash(&scan_files) { .. }
ScanStage(a, st, j, bl, s, r) ==
    IF ~r.ok THEN [st EXCEPT !.result = "err"]
    ELSE IF is_skip_consistent_hash(r.scans) THEN HashStages(a, st, j, Push(bl, s))
    ELSE AfterStage(a, st, HashPasses(a, st, j, s, r.scans[1], ToleranceList(a.tolerance)),
                    j, bl, s)

FetchStage(a, st, j, bl, eligible) ==
    IF eligible = {} THEN st
    ELSE ScanStage(a, st, j, bl, PickStage(eligible, a.pick),
                   a.scan_files[<<j, PickStage(eligible, a.pick)>>])

\* while let Some((running_stage, task_id_gen)) = graph.fetch_running_stage(&black_list)
HashStages(a, st, j, bl) == FetchStage(a, st, j, bl, RunningStagesIn(st.task_infos, j, bl))

AfterJob(a, after, jobs) ==
    IF after.result # "none" THEN after ELSE HashJobs(a, after, Tail(jobs))

\* for (job_id, job_info) in active_jobs.iter() { .. }
HashJobs(a, st, jobs) ==
    IF jobs = <<>> THEN [st EXCEPT !.result = "ok"]
    ELSE IF ~JobIsRunning(Head(jobs)) THEN HashJobs(a, st, Tail(jobs))
    ELSE AfterJob(a, HashStages(a, st, Head(jobs), {}), jobs)

HashRound(a) ==
    LET st == [slots |-> slots, task_infos |-> task_infos, task_id_gen |-> task_id_gen,
               schedulable_tasks |-> <<>>, total_slots |-> TotalSlots(slots), result |-> "none"]
    IN  IF st.total_slots = 0 THEN [st EXCEPT !.result = "ok"]
        ELSE HashJobs(a, st, a.active_jobs)

\* the arguments two rounds are given: the same but for the tolerance
HashArguments ==
    [active_jobs : Orders(Jobs),
     num_replicas : NumReplicasChoices,
     tolerance : 1..(Cardinality(Executors) - 1),
     pick : {"lowest", "highest"},
     scan_files : {f \in [JobStages -> UNION {ScanFilesResults(js[1], js[2]) : js \in JobStages}] :
                     \A js \in JobStages : f[js] \in ScanFilesResults(js[1], js[2])}]

compare_tolerances ==
    /\ compared = <<>>
    /\ pc = "idle"
    /\ \E a \in HashArguments :
          compared' = <<[arguments |-> a,
                         exact |-> HashRound([a EXCEPT !.tolerance = 0]),
                         tolerant |-> HashRound(a)]>>
    /\ UNCHANGED <<persistent, history, hash_locals, pc, policy, active_jobs, job_id,
                   black_list, running_stage, runnable_tasks, sorted, idx_slot, total_slots,
                   schedulable_tasks, result, if_skip, acquired, skip_log, rounds, cluster,
                   stores, executors_filter, lookup, concurrent>>

ToleranceNext == compare_tolerances

ToleranceSpec == Init /\ [][ToleranceNext]_vars

\* ================================================================= claims
BoundTo(e) == BoundIn(schedulable_tasks, e)
TasksOf(j, s) == {i \in 1..Len(schedulable_tasks) :
                    schedulable_tasks[i].job_id = j /\ schedulable_tasks[i].stage_id = s}
Returned == pc = "done" /\ result = "ok"
InRound == pc # "idle"
FilledIds(infos) == {infos[p][1].task_id : p \in {q \in Partitions : infos[q] # <<>>}}

\* C1: when a round of any policy returns, every executor has lost exactly as many
\* free slots as the round returned bound tasks for it; an executor that got no
\* task has the slot count it started with.
C1_SlotConservation ==
    Returned => \A e \in Executors : BoundTo(e) = slots0[e] - slots[e]

\* a consistent-hash round returned: one executor got two tasks, another none
\* although it had a free slot
C1_Witness ==
    /\ Returned
    /\ policy = "consistent_hash"
    /\ \E e1, e2 \in Executors :
          /\ BoundTo(e1) = 2
          /\ BoundTo(e2) = 0
          /\ slots0[e2] > 0

\* C2: every bound task a round returns names a partition whose task_infos cell was
\* empty before the round and now holds the task's executor_id and task_id.
C2_EmittedTaskFillsEmptyCell ==
    Returned =>
        \A i \in 1..Len(schedulable_tasks) :
            LET T == schedulable_tasks[i] IN
            /\ task_infos0[T.job_id][T.stage_id][T.partition_id] = <<>>
            /\ task_infos[T.job_id][T.stage_id][T.partition_id] =
                  <<[executor_id |-> T.executor_id, task_id |-> T.task_id]>>

\* a second round returned a task for a stage in which an earlier round had filled
\* another cell
C2_Witness ==
    /\ Returned
    /\ rounds = 2
    /\ \E i \in 1..Len(schedulable_tasks) :
          LET T == schedulable_tasks[i] IN
          \E q \in Partitions : task_infos0[T.job_id][T.stage_id][q] # <<>>

\* C3: over any sequence of rounds the task ids of a stage are handed out in
\* strictly increasing order, and no two cells of a stage hold the same task id.
C3_NewIdAboveAll ==
    \A js \in JobStages : \A p \in Partitions :
        LET j == js[1]
            s == js[2]
        IN  task_infos'[j][s][p] # task_infos[j][s][p] =>
               /\ task_infos'[j][s][p] # <<>>
               /\ \A t \in FilledIds(task_infos[j][s]) : t < task_infos'[j][s][p][1].task_id
C3_NoSharedId ==
    \A js \in JobStages : \A p, q \in Partitions :
        LET infos == task_infos[js[1]][js[2]] IN
        (p # q /\ infos[p] # <<>> /\ infos[q] # <<>>) => infos[p][1].task_id # infos[q][1].task_id
C3_TaskIdsIncrease == [][C3_NewIdAboveAll]_vars /\ []C3_NoSharedId

\* a stage holds two task ids that were handed out in different rounds
C3_Witness ==
    /\ rounds = 2
    /\ \E js \in JobStages : \E p, q \in Partitions :
          /\ task_infos0[js[1]][js[2]][p] # <<>>
          /\ task_infos0[js[1]][js[2]][q] = <<>>
          /\ task_infos[js[1]][js[2]][q] # <<>>

\* C4: the task ids a round assigns to the partitions of one stage are a contiguous
\* range of integers, all greater than every task id the stage held before the
\* round; also when the stage is entered in several passes and when the job has
\* several running stages.
NewIds(j, s) == {schedulable_tasks[i].task_id : i \in TasksOf(j, s)}
IsRange(S) == S = {} \/ \E lo, hi \in S : S = lo..hi
C4_ContiguousAboveOld ==
    InRound =>
        \A js \in JobStages :
            LET j == js[1]
                s == js[2]
            IN  /\ IsRange(NewIds(j, s))
                /\ Cardinality(NewIds(j, s)) = Cardinality(TasksOf(j, s))
                /\ \A n \in NewIds(j, s) : \A o \in FilledIds(task_infos0[j][s]) : n > o

\* a consistent-hash round bound a stage of job_b that held an older task id, and
\* both partitions of job_b's other stage
C4_Witness ==
    /\ Returned
    /\ policy = "consistent_hash"
    /\ \E s1, s2 \in StagesOf["job_b"] :
          /\ s1 # s2
          /\ FilledIds(task_infos0["job_b"][s1]) # {}
          /\ NewIds("job_b", s1) # {}
          /\ Cardinality(NewIds("job_b", s2)) = 2

\* C5: a task is bound only to an executor that has a free slot at that moment:
\* the counter that is decremented is above 0, none underflows, and no executor
\* gets more tasks in a round than it had free slots when the round began.
C5_BindTakesFreeSlot ==
    Len(schedulable_tasks') = Len(schedulable_tasks) + 1 =>
        slots[schedulable_tasks'[Len(schedulable_tasks')].executor_id] > 0
C5_WithinStartSlots ==
    \A e \in Executors : slots[e] <= slots0[e] /\ BoundTo(e) <= slots0[e]
C5_NoBindWithoutSlot == [][C5_BindTakesFreeSlot]_vars /\ []C5_WithinStartSlots

\* a bias round used up an executor and went on to bind to the next one
C5_Witness ==
    /\ policy = "bias"
    /\ \E e1, e2 \in Executors :
          /\ slots0[e1] = 2 /\ slots[e1] = 0 /\ BoundTo(e1) = 2
          /\ BoundTo(e2) > 0 /\ e1 # e2

\* C6: a stage on which the skip predicate of the policy fired is not touched in the
\* round: its cells and its task-id generator are as before the round, no bound
\* task names it, and it is fetched (and skipped) only once.
C6_SkippedStageUntouched ==
    InRound =>
        /\ \A i \in 1..Len(skip_log) :
              LET j == skip_log[i][1]
                  s == skip_log[i][2]
              IN  /\ task_infos[j][s] = task_infos0[j][s]
                  /\ task_id_gen[j][s] = task_id_gen0[j][s]
                  /\ TasksOf(j, s) = {}
        /\ \A i, k \in 1..Len(skip_log) : skip_log[i] = skip_log[k] => i = k

\* a round skipped a stage of job_b that has an empty partition, bound the other
\* stage of job_b, and returned with a slot left over
C6_Witness ==
    /\ Returned
    /\ \E s1, s2 \in StagesOf["job_b"] :
          /\ \E i \in 1..Len(skip_log) : skip_log[i] = <<"job_b", s1>>
          /\ \E p \in Partitions : task_infos["job_b"][s1][p] = <<>>
          /\ TasksOf("job_b", s2) # {}
    /\ \E e \in Executors : slots[e] > 0

\* C7: a job whose status is not running is skipped by every policy: no bound task
\* names it, its task_infos and task-id generators are unchanged, and its write
\* lock is not acquired.
C7_NonRunningJobSkipped ==
    InRound =>
        \A j \in Jobs :
            status[j] # "running" =>
                /\ j \notin acquired
                /\ task_infos[j] = task_infos0[j]
                /\ task_id_gen[j] = task_id_gen0[j]
                /\ \A i \in 1..Len(schedulable_tasks) : schedulable_tasks[i].job_id # j

\* a round returned with free slots left, having bound tasks of the running job and
\* passed over a job that is not running and has empty partitions
C7_Witness ==
    /\ Returned
    /\ \E j1, j2 \in Jobs :
          /\ status[j1] # "running"
          /\ status[j2] = "running"
          /\ \E i \in 1..Len(schedulable_tasks) : schedulable_tasks[i].job_id = j2
          /\ active_jobs = <<>>
    /\ \E e \in Executors : slots[e] > 0

\* C8: bias and round robin leave no work undone: in a round in which no stage is
\* skipped the number of bound tasks is the smaller of the free slots at the start
\* and the empty partitions of the running stages of the running jobs.
EmptyCells(infos) == Cardinality({p \in Partitions : infos[p] = <<>>})
RECURSIVE SumEmpty(_)
SumEmpty(S) == IF S = {} THEN 0
               ELSE LET js == CHOOSE x \in S : TRUE
                    IN  EmptyCells(task_infos0[js[1]][js[2]]) + SumEmpty(S \ {js})
PendingAtStart == SumEmpty({js \in JobStages : status[js[1]] = "running"})
C8_WorkConserving ==
    (Returned /\ policy \in {"bias", "round_robin"} /\ skip_log = <<>>) =>
        Len(schedulable_tasks) = Min(TotalSlots(slots0), PendingAtStart)

\* a bias round over both jobs ran out of slots on three executors before it ran
\* out of partitions
C8_Witness ==
    /\ Returned
    /\ policy = "bias"
    /\ skip_log = <<>>
    /\ \A j \in Jobs : status[j] = "running"
    /\ \A e \in Executors : slots0[e] > 0
    /\ TotalSlots(slots0) < PendingAtStart
    /\ Len(schedulable_tasks) = TotalSlots(slots0)

\* C9: in a bias round a task goes to an executor only when every executor that
\* started the round with more free slots is used up, so at most one executor is
\* left partly used.
C9_BiasOrder ==
    (InRound /\ policy = "bias") =>
        /\ \A e1, e2 \in Executors :
              (BoundTo(e1) > 0 /\ slots0[e2] > slots0[e1]) => slots[e2] = 0
        /\ Cardinality({e \in Executors : 0 < slots[e] /\ slots[e] < slots0[e]}) <= 1

\* a bias round has filled the executor that started with two free slots and then
\* bound a task to one of the two executors that started with one
C9_Witness ==
    /\ InRound
    /\ policy = "bias"
    /\ \E e1, e2, e3 \in Executors :
          /\ slots0[e1] = 2 /\ slots0[e2] = 1 /\ slots0[e3] = 1
          /\ BoundTo(e1) = 2 /\ BoundTo(e2) = 1 /\ BoundTo(e3) = 0
          /\ e2 # e3

\* C10: in a round-robin round, up to and including the bind that first uses up an
\* executor, the numbers of tasks bound to any two executors differ by at most 1;
\* the cursor is carried over from stage to stage and from job to job.
C10_BindKeepsBalance ==
    (/\ policy = "round_robin"
     /\ Len(schedulable_tasks') = Len(schedulable_tasks) + 1
     /\ \A e \in Executors : slots[e] > 0) =>
        \A e1, e2 \in Executors :
            BoundIn(schedulable_tasks', e1) - BoundIn(schedulable_tasks', e2) <= 1
C10_RoundRobinFair == [][C10_BindKeepsBalance]_vars

\* a round-robin round has bound one task to each of the three executors, for
\* partitions of both jobs, and no executor is used up
C10_Witness ==
    /\ policy = "round_robin"
    /\ \A e \in Executors : BoundTo(e) = 1 /\ slots[e] > 0
    /\ \E i, k \in 1..Len(schedulable_tasks) :
          schedulable_tasks[i].job_id # schedulable_tasks[k].job_id

\* ---- C11: a bound task has data_cache = true only if the consistent-hash policy
\* bound it and the tolerance-0 lookup of its partition's first file, made when it
\* was bound, returned the executor it is bound to; a task bound by the bias or the
\* round-robin policy has data_cache = false.
Bound == Len(schedulable_tasks') = Len(schedulable_tasks) + 1
NewTask == schedulable_tasks'[Len(schedulable_tasks')]
FirstFileOf(t) == ScanOf(t.job_id, t.stage_id)[t.partition_id + 1][1]
C11_BindOnPrimary ==
    (Bound /\ NewTask.data_cache) =>
        /\ policy = "consistent_hash"
        /\ get_mut_with_tolerance(slots, num_replicas, FirstFileOf(NewTask), 0)
             = <<NewTask.executor_id>>
C11_NoCacheElsewhere ==
    policy \in {"bias", "round_robin"} =>
        \A i \in 1..Len(schedulable_tasks) : ~schedulable_tasks[i].data_cache
C11_DataCacheOnPrimary == [][C11_BindOnPrimary]_vars /\ []C11_NoCacheElsewhere

\* A consistent-hash round has bound a task with data_cache = true on the primary
\* node of its file.
C11_Witness ==
    /\ policy = "consistent_hash"
    /\ \E i \in 1..Len(schedulable_tasks) :
          /\ schedulable_tasks[i].data_cache
          /\ schedulable_tasks[i].executor_id
               = Head(Walk[<<executors, num_replicas, FirstFileOf(schedulable_tasks[i])>>])

\* ---- C12: in the consistent-hash policy, whatever the caller's tolerance (0
\* included), a task bound in the first of the two passes over a stage has
\* data_cache = true and a task bound in the second pass has data_cache = false.
FirstPass == Len(tolerance_list) = 2
C12_BindMarksPass ==
    (policy = "consistent_hash" /\ Bound) => (NewTask.data_cache <=> FirstPass)
C12_DataCachePerPass == [][C12_BindMarksPass]_vars

\* With a tolerance above 0 a stage got a task in the first pass and one in the second.
C12_Witness ==
    /\ policy = "consistent_hash"
    /\ tolerance > 0
    /\ \E i, k \in 1..Len(schedulable_tasks) :
          /\ schedulable_tasks[i].job_id = schedulable_tasks[k].job_id
          /\ schedulable_tasks[i].stage_id = schedulable_tasks[k].stage_id
          /\ schedulable_tasks[i].data_cache
          /\ ~schedulable_tasks[k].data_cache

\* ---- C13: the consistent-hash policy skips a stage exactly when get_scan_files
\* answered a list of length 0 or of length above 1; a round in which every answer
\* was the empty list returns no bound task and leaves every task_infos cell, every
\* task-id generator and every node's available_slots as they were.
Skipped(j, s) == \E i \in 1..Len(skip_log) : skip_log[i] = <<j, s>>
C13_SkipIffNotOneScan ==
    policy = "consistent_hash" =>
        /\ \A t \in scan_files :
              t[3].ok => (Skipped(t[1], t[2]) <=> (Len(t[3].scans) = 0 \/ Len(t[3].scans) > 1))
        /\ (Returned /\ \A t \in scan_files : t[3].ok /\ t[3].scans = <<>>) =>
              /\ schedulable_tasks = <<>>
              /\ task_infos = task_infos0
              /\ task_id_gen = task_id_gen0
              /\ slots = slots0

\* A round with free slots asked for the scans of every stage of both jobs, got the
\* empty list each time, and returned.
C13_Witness ==
    /\ policy = "consistent_hash"
    /\ Returned
    /\ total_slots > 0
    /\ Cardinality(scan_files) = Cardinality(JobStages)
    /\ \A t \in scan_files : t[3].ok /\ t[3].scans = <<>>

\* ---- C14: in the consistent-hash policy a lookup that returns no node is not an
\* error: the partition keeps its empty cell and takes no task id, the round goes on
\* with the other partitions, stages and jobs, and it ends in an error or a panic
\* only for another cause (get_scan_files failed, a partition without files).
C14_MissIsNoError ==
    policy = "consistent_hash" =>
        /\ result = "err" => \E t \in scan_files : ~t[3].ok
        /\ result = "panic" =>
              \E t \in scan_files : /\ t[3].ok
                                    /\ Len(t[3].scans) = 1
                                    /\ t[3].scans[1] # FullScan(t[1], t[2])
        /\ \A js \in JobStages :
              /\ task_id_gen[js[1]][js[2]]
                   = task_id_gen0[js[1]][js[2]] + Cardinality(TasksOf(js[1], js[2]))
              /\ \A p \in Partitions :
                    task_infos[js[1]][js[2]][p] = <<>> =>
                       ~\E i \in TasksOf(js[1], js[2]) : schedulable_tasks[i].partition_id = p

\* A round returned Ok with slots left: a stage that was not skipped keeps an empty
\* cell (its lookups found no node in both passes) and is blacklisted at the end,
\* while another partition was bound.
C14_Witness ==
    /\ policy = "consistent_hash"
    /\ Returned
    /\ total_slots > 0
    /\ schedulable_tasks # <<>>
    /\ \E t \in scan_files :
          /\ t[3].ok
          /\ t[3].scans = <<FullScan(t[1], t[2])>>
          /\ \E p \in Partitions : task_infos[t[1]][t[2]][p] = <<>>

\* ---- C15: a round that fails mid-round leaves nothing behind: after get_scan_files
\* returned an error, every task_infos cell and every task-id generator is as it was
\* when the round began.
C15_AllOrNothing ==
    (pc = "done" /\ result = "err") =>
        /\ task_infos = task_infos0
        /\ task_id_gen = task_id_gen0

\* ---- C16: unbind_tasks is atomic: either the available slots of every executor in
\* the list grow by its count, or, when a named executor has no entry any more, the
\* call fails and no slot count changes.
UnbindCalled == ncalls' = ncalls + 1 /\ last_call'.op = "unbind"
C16_AllOrNone ==
    UnbindCalled =>
        LET pairs == last_call'.pairs IN
        \/ /\ last_call'.ok
           /\ Named(pairs) \subseteq executors
           /\ \A e \in Executors : slots'[e] = slots[e] + pairs[e]
        \/ /\ ~last_call'.ok
           /\ ~(Named(pairs) \subseteq executors)
           /\ slots' = slots
C16_UnbindAtomic == [][C16_AllOrNone]_vars

\* unbind_tasks failed on a list that names a removed executor and one that is
\* still there.
C16_Witness ==
    /\ last_call.op = "unbind"
    /\ ~last_call.ok
    /\ \E e \in executors : last_call.pairs[e] > 0
    /\ \E e \in Executors \ executors : last_call.pairs[e] > 0

\* ---- C17: when a round has returned Ok and unbind_tasks is called next with, for
\* each executor, the number of tasks the round bound to it, every executor's
\* available slots are again what they were before the round.
C17_UnbindAfterRound ==
    (/\ Returned
     /\ last_call = NoCall
     /\ UnbindCalled
     /\ last_call'.pairs = [e \in Executors |-> BoundTo(e)]) =>
        /\ last_call'.ok
        /\ slots' = slots0
C17_BindUnbindRoundTrip == [][C17_UnbindAfterRound]_vars

\* A round bound tasks, and the one call since handed all of them back.
C17_Witness ==
    /\ Returned
    /\ ncalls = 1
    /\ schedulable_tasks # <<>>
    /\ last_call.op = "unbind"
    /\ last_call.ok
    /\ last_call.pairs = [e \in Executors |-> BoundTo(e)]
    /\ slots = slots0

SetBy(e) == /\ ncalls' = ncalls + 1
            /\ last_call'.op \in {"register", "remove"}
            /\ last_call'.executor_id = e
C18_Changes ==
    \A e \in Executors :
        /\ slots'[e] < slots[e] =>
              \/ ncalls' = ncalls /\ Bound /\ NewTask.executor_id = e
              \/ SetBy(e)
        /\ slots'[e] > slots[e] =>
              \/ UnbindCalled /\ last_call'.ok /\ last_call'.pairs[e] > 0
              \/ SetBy(e)
C18_Fresh == \A e \in executors : ~stale[e] => slots[e] <= capacity[e]
Committed(b) == binder[b].pc = "done" /\ binder[b].result = "ok"
BoundBy(b, e) == IF Committed(b) THEN BoundIn(binder[b].schedulable_tasks, e) ELSE 0
TotalBound(e) == SumOver([b \in Schedulers |-> BoundBy(b, e)], Schedulers)
C19_NoDoubleSpend ==
    \A e \in Executors :
        /\ TotalBound(e) <= slots0[e]
        /\ slots[e] = slots0[e] - TotalBound(e)

\* Two rounds that both started from the first inventory have both returned tasks.
C19_Witness ==
    \A b \in Schedulers :
        /\ Committed(b)
        /\ binder[b].snapshot = slots0
        /\ binder[b].schedulable_tasks # <<>>

\* ---- C20: a round reads and writes a job's graph only while it holds the job's
\* write lock, so no partition is bound by two rounds: no two bound tasks of any
\* rounds name the same partition, and every filled task_infos cell holds the
\* executor and task id of exactly one bound task.
AllTasks == {<<b, i>> : b \in Schedulers, i \in 1..(NumPartitions * Cardinality(JobStages))}
TaskAt(x) == binder[x[1]].schedulable_tasks[x[2]]
Emitted == {x \in AllTasks : x[2] <= Len(binder[x[1]].schedulable_tasks)}
SamePartition(t, u) ==
    t.job_id = u.job_id /\ t.stage_id = u.stage_id /\ t.partition_id = u.partition_id
C20_PerJobExclusion ==
    /\ \A b \in Schedulers :
          binder[b].pc \in {"fetch", "bind"} => lock[binder[b].job_id[1]] = b
    /\ \A x, y \in Emitted : SamePartition(TaskAt(x), TaskAt(y)) => x = y
    /\ \A js \in JobStages : \A p \in Partitions :
          LET cell == task_infos[js[1]][js[2]][p] IN
          cell # <<>> =>
             \E x \in Emitted :
                /\ TaskAt(x).job_id = js[1]
                /\ TaskAt(x).stage_id = js[2]
                /\ TaskAt(x).partition_id = p
                /\ TaskAt(x).executor_id = cell[1].executor_id
                /\ TaskAt(x).task_id = cell[1].task_id

\* While one round, holding a job's lock, binds partitions of the job, the other
\* round has that job next and waits for the lock.
C20_Witness ==
    \E b, c \in Schedulers :
        /\ b # c
        /\ binder[b].pc = "bind"
        /\ binder[b].schedulable_tasks # <<>>
        /\ binder[c].pc = "next_job"
        /\ binder[c].active_jobs # <<>>
        /\ Head(binder[c].active_jobs) = binder[b].job_id[1]
        /\ JobIsRunning(binder[b].job_id[1])

\* ---- C21: when a round is called with a set of executors, every task it binds names
\* an executor of the set, and the available slots of the executors outside the set
\* are what they were when the round began.
C21_FilterRespected ==
    executors_filter # <<>> =>
        /\ \A i \in 1..Len(schedulable_tasks) :
              schedulable_tasks[i].executor_id \in executors_filter[1]
        /\ \A e \in Executors \ executors_filter[1] : slots[e] = slots0[e]

\* A round called with a set of executors has bound a task although an executor
\* outside the set had more free slots than any executor inside.
C21_Witness ==
    /\ Returned
    /\ executors_filter # <<>>
    /\ schedulable_tasks # <<>>
    /\ \E e \in Executors \ executors_filter[1] :
          \A f \in executors_filter[1] : slots0[e] > slots0[f]

\* ---- C22: a round of any policy that starts with no free slot on any executor
\* returns at once with an empty list of bound tasks and no error, and leaves the
\* slots, every task_infos cell and every task-id generator as they were, however
\* many partitions are pending.
C22_NoSlotsNoBinding ==
    (InRound /\ SumOver(slots0, Executors) = 0) =>
        /\ Returned
        /\ schedulable_tasks = <<>>
        /\ slots = slots0
        /\ task_infos = task_infos0
        /\ task_id_gen = task_id_gen0

\* A consistent-hash round began without a free slot while both jobs were running
\* with every partition pending.
C22_Witness ==
    /\ pc = "done"
    /\ policy = "consistent_hash"
    /\ SumOver(slots0, Executors) = 0
    /\ \A j \in Jobs : status[j] = "running"
    /\ PendingAtStart = NumPartitions * Cardinality(JobStages)

\* ---- C23: a lookup on the ring returns the first node with a free slot among the
\* first tolerance + 1 distinct nodes met clockwise from the key's hashed position,
\* each node counted once however many replicas it has; it returns no node when
\* none of these has a free slot, when the ring has no node, and when the ring was
\* built with 0 replicas.
\* how far clockwise from h the nearest virtual point of a node lies
Distance(e, h) ==
    CHOOSE d \in 0..(HashSize - 1) :
        /\ \E r \in 0..(num_replicas - 1) : Clockwise(HashNode(e, r), h) = d
        /\ \A r \in 0..(num_replicas - 1) : Clockwise(HashNode(e, r), h) >= d
MetBefore(a, b, h) ==
    \/ Distance(a, h) < Distance(b, h)
    \/ Distance(a, h) = Distance(b, h) /\ NodeNumber[a] < NodeNumber[b]
Inspected(key, tol) ==
    IF num_replicas = 0 THEN {}
    ELSE {e \in executors :
            Cardinality({a \in executors \ {e} : MetBefore(a, e, HashPath(key))}) <= tol}
LookupMeetsContract(key, tol, node) ==
    LET window == Inspected(key, tol) IN
    /\ (executors = {} \/ num_replicas = 0) => node = <<>>
    /\ node = <<>> <=> \A e \in window : slots[e] = 0
    /\ node # <<>> =>
          /\ node[1] \in window
          /\ slots[node[1]] > 0
          /\ \A a \in window : MetBefore(a, node[1], HashPath(key)) => slots[a] = 0
C23_Lookup == lookup' # lookup => LookupMeetsContract(lookup'.key, lookup'.tolerance, lookup'.node)
C23_RingLookup == [][C23_Lookup]_vars

\* On a ring of three replicas per node a lookup with a tolerance above 0 passed over
\* the first node, which had no free slot, and returned a later one.
C23_Witness ==
    /\ num_replicas = MaxReplicas
    /\ lookup.node # <<>>
    /\ lookup.tolerance > 0
    /\ \E a \in executors :
          /\ a # lookup.node[1]
          /\ MetBefore(a, lookup.node[1], HashPath(lookup.key))
          /\ slots[a] = 0

\* ---- C24: remove_executor(id) succeeds and leaves no metadata, no slots entry and
\* no heartbeat of id: get_executor_metadata(id) then answers NotFound and
\* get_executor_heartbeat(id) answers None; removing an executor that is not there
\* succeeds too and changes nothing; and a round binds no task to an executor that
\* has no entry.
RemoveCalled == ncalls' = ncalls + 1 /\ last_call'.op = "remove"
C24_Evicts ==
    RemoveCalled =>
        \E id \in Executors :
            /\ id = last_call'.executor_id
            /\ last_call'.ok
            /\ id \notin executors'
            /\ get_executor_metadata(metadata', id) = [ok |-> FALSE, error |-> "NotFound"]
            /\ get_executor_heartbeat(heartbeats', id) = <<>>
            /\ (id \notin executors /\ id \notin metadata /\ id \notin heartbeats) =>
                  UNCHANGED <<slots, executors, capacity, metadata, heartbeats, outstanding>>
C24_NoBindToRemoved == Bound => NewTask.executor_id \in executors
C24_RemoveExecutor == [][C24_Evicts /\ C24_NoBindToRemoved]_vars

\* After an executor was removed, a round is under way that has bound a task to
\* each executor that is left.
C24_Witness ==
    /\ pc = "bind"
    /\ \E id \in Executors \ executors :
          /\ id \notin metadata
          /\ id \notin heartbeats
          /\ executors # {}
          /\ \A e \in executors : BoundTo(e) > 0

\* ---- C25: every round of every policy comes to an end; between two calls of
\* fetch_running_stage for a job the round binds at least one partition of the stage
\* it fetched, or puts the stage on the blacklist, or returns.
C25_Iteration ==
    \* a skipped stage is blacklisted
    /\ (pc = "fetch" /\ pc' = "fetch") => Cardinality(black_list') > Cardinality(black_list)
    \* bias, round robin: the stage fetched has a partition to bind, and every partition
    \* collected is bound unless the round returns
    /\ (policy \in {"bias", "round_robin"} /\ pc = "fetch" /\ pc' = "bind") =>
          runnable_tasks' # <<>>
    /\ (policy \in {"bias", "round_robin"} /\ pc = "bind" /\ runnable_tasks # <<>>) =>
          \/ Bound /\ NewTask.stage_id = running_stage[1] /\ NewTask.job_id = job_id[1]
          \/ pc' = "done"
    \* consistent hash: a pass that took no slot blacklists the stage, and a slot is
    \* taken only for a task of the stage
    /\ (policy = "consistent_hash" /\ pc = "bind" /\ pc' = "fetch") =>
          \/ total_slots < pre_total_slots
          \/ running_stage[1] \in black_list' \ black_list
    /\ (policy = "consistent_hash" /\ pc = "bind" /\ total_slots' < total_slots) =>
          Bound /\ NewTask.stage_id = running_stage[1] /\ NewTask.job_id = job_id[1]
C25_Terminates ==
    /\ [][C25_Iteration]_vars
    /\ (pc \notin {"idle", "done"}) ~> (pc = "done")

\* A consistent-hash round has ended after it fetched a stage a second time: the first
\* pass over the stage bound one of its partitions and left the other.
C25_Witness ==
    /\ pc = "done"
    /\ policy = "consistent_hash"
    /\ result = "ok"
    /\ \E js \in JobStages :
          /\ \A j \in Jobs : status[j] = "running" <=> j = js[1]
          /\ js[2] \in black_list
          /\ Cardinality(TasksOf(js[1], js[2])) = 1
          /\ EmptyCells(task_infos[js[1]][js[2]]) = 1

\* ---- C26: whenever the round-robin policy goes to bind a partition, total_slots is
\* above 0 and the executor at the cursor, after the two checks that move the cursor
\* back to position 0, has a free slot; so position 0 has a free slot whenever the
\* cursor is moved back to it.
C26_CursorStep ==
    (policy = "round_robin" /\ pc = "bind" /\ runnable_tasks # <<>>) =>
        LET cursor == idx_slot' - 1 IN
        /\ total_slots > 0
        /\ cursor \in 0..(Len(sorted) - 1)
        /\ slots[sorted[cursor + 1]] > 0
        /\ (cursor = 0 /\ idx_slot # 0) => slots[sorted[1]] > 0
        /\ Bound /\ NewTask.executor_id = sorted[cursor + 1]
C26_CursorHasSlot == [][C26_CursorStep]_vars

\* The cursor came to the third executor, which had no slot from the start, went
\* back to position 0 and the third task was bound there.
C26_Witness ==
    /\ policy = "round_robin"
    /\ idx_slot = 1
    /\ Len(schedulable_tasks) = 3
    /\ schedulable_tasks[3].executor_id = sorted[1]
    /\ schedulable_tasks[2].executor_id = sorted[2]
    /\ slots0[sorted[3]] = 0

\* ---- C27: in the consistent-hash policy, when the pass over a stage with both
\* tolerances ends, the stage is put on the blacklist exactly if the pass bound no
\* partition; a stage whose pass bound a partition stays off the blacklist and, while
\* it has an empty partition, is a stage the next fetch_running_stage can return; and
\* nothing but a skipped stage or such a pass adds to the blacklist.
PassEnds == policy = "consistent_hash" /\ pc = "bind" /\ pc' = "fetch"
BoundInPass == Len(schedulable_tasks) - (SumOver(slots0, Executors) - pre_total_slots)
C27_PassStep ==
    /\ PassEnds =>
          LET j == job_id[1]
              s == running_stage[1]
          IN  /\ s \in black_list' <=> BoundInPass = 0
              /\ BoundInPass = 0 <=> total_slots = pre_total_slots
              /\ (BoundInPass > 0 /\ EmptyCells(task_infos[j][s]) > 0) =>
                    s \in fetch_running_stage(j, black_list')
    /\ (policy = "consistent_hash" /\ pc \in {"fetch", "bind"} /\ black_list' # black_list) =>
          \/ pc = "fetch" /\ Len(skip_log') = Len(skip_log) + 1
          \/ PassEnds /\ BoundInPass = 0 /\ black_list' = black_list \cup {running_stage[1]}
C27_BlacklistIffNothingBound == [][C27_PassStep]_vars

\* A stage of the only running job is fetched for the second time in a round: it got
\* a task in an earlier pass, has an empty partition left and the round has slots.
C27_Witness ==
    /\ policy = "consistent_hash"
    /\ pc = "bind"
    /\ pre_total_slots = total_slots
    /\ total_slots > 0
    /\ Len(tolerance_list) = 2
    /\ \A j \in Jobs : status[j] = "running" <=> j = job_id[1]
    /\ Cardinality(TasksOf(job_id[1], running_stage[1])) = 1
    /\ EmptyCells(task_infos[job_id[1]][running_stage[1]]) = 1

\* ---- C28 (as stated): in the consistent-hash policy a pending partition of a
\* non-skipped stage that has no files, or no entry in the scan's list of partitions,
\* makes the round return an error value: a round ends with Ok or with Err, never in
\* a panic on an assertion or on an index out of range.
C28_AbsentFilesAreAnError ==
    (policy = "consistent_hash" /\ pc = "done") => result \in {"ok", "err"}

\* ---- C29: when a round returns Ok, every task_infos cell that was empty before the
\* round and is filled now has exactly one task in the returned list with the cell's
\* partition, executor_id and task_id, and every task-id generator has advanced by the
\* number of tasks returned for its stage.
C29_FilledCellHasItsTask ==
    Returned =>
        \A js \in JobStages :
            LET j == js[1]
                s == js[2]
            IN  /\ \A p \in Partitions :
                      (task_infos0[j][s][p] = <<>> /\ task_infos[j][s][p] # <<>>) =>
                          Cardinality({i \in TasksOf(j, s) :
                              /\ schedulable_tasks[i].partition_id = p
                              /\ schedulable_tasks[i].executor_id = task_infos[j][s][p][1].executor_id
                              /\ schedulable_tasks[i].task_id = task_infos[j][s][p][1].task_id}) = 1
                /\ task_id_gen[j][s] = task_id_gen0[j][s] + Cardinality(TasksOf(j, s))

\* A round-robin round returned early, on its last slot, with tasks of two stages and
\* partitions left pending.
C29_Witness ==
    /\ Returned
    /\ policy = "round_robin"
    /\ total_slots = 0
    /\ PendingAtStart > Len(schedulable_tasks)
    /\ \E i, k \in 1..Len(schedulable_tasks) :
          <<schedulable_tasks[i].job_id, schedulable_tasks[i].stage_id>>
             # <<schedulable_tasks[k].job_id, schedulable_tasks[k].stage_id>>

\* ---- C30: no partition is bound twice: the tasks a round has bound name different
\* partitions; a task is bound only for a partition whose cell is empty, and fills it;
\* and a filled cell is never written again, in the rest of the round or in a later
\* round, so no later task names its partition.
C30_DifferentPartitions ==
    \A i, k \in 1..Len(schedulable_tasks) :
        SamePartition(schedulable_tasks[i], schedulable_tasks[k]) => i = k
C30_CellStep ==
    /\ \A js \in JobStages : \A p \in Partitions :
          task_infos[js[1]][js[2]][p] # <<>> =>
              task_infos'[js[1]][js[2]][p] = task_infos[js[1]][js[2]][p]
    /\ Bound =>
          /\ task_infos[NewTask.job_id][NewTask.stage_id][NewTask.partition_id] = <<>>
          /\ task_infos'[NewTask.job_id][NewTask.stage_id][NewTask.partition_id] # <<>>
C30_NoPartitionBoundTwice == []C30_DifferentPartitions /\ [][C30_CellStep]_vars

\* A second consistent-hash round bound, in its pass with the caller's tolerance, the
\* partition a stage had left after the first round had bound the other.
C30_Witness ==
    /\ Returned
    /\ rounds = 2
    /\ policy = "consistent_hash"
    /\ \E i \in 1..Len(schedulable_tasks) :
          LET T == schedulable_tasks[i] IN
          /\ ~T.data_cache
          /\ \E q \in Partitions \ {T.partition_id} : task_infos0[T.job_id][T.stage_id][q] # <<>>

\* ---- C31 (as stated): of two consistent-hash rounds on the same nodes, ring, jobs
\* in the same order and scan files, both returning Ok, the one with a tolerance of 1
\* or more binds at least as many tasks as the one with tolerance 0, and binds to
\* every node at least as many tasks.
C31_ToleranceMonotone ==
    (compared # <<>> /\ compared[1].exact.result = "ok" /\ compared[1].tolerant.result = "ok") =>
        /\ Len(compared[1].tolerant.schedulable_tasks) >= Len(compared[1].exact.schedulable_tasks)
        /\ \A e \in Executors :
              BoundIn(compared[1].tolerant.schedulable_tasks, e)
                 >= BoundIn(compared[1].exact.schedulable_tasks, e)

\* ---- C31 (amended): when the running jobs have between them one running stage that
\* is not skipped, of two consistent-hash rounds on the same nodes, ring, jobs and
\* scan files, both returning Ok, the one with a tolerance of 1 or more binds every
\* task the one with tolerance 0 binds, to the same node and in the same order, and
\* so at least as many tasks in all and to every node.
OneStageBinds(a) ==
    Cardinality({js \in JobStages :
                    /\ JobIsRunning(js[1])
                    /\ a.scan_files[js].ok
                    /\ ~is_skip_consistent_hash(a.scan_files[js].scans)}) <= 1
C31_ToleranceExtendsOneStage ==
    (/\ compared # <<>>
     /\ OneStageBinds(compared[1].arguments)
     /\ compared[1].exact.result = "ok"
     /\ compared[1].tolerant.result = "ok") =>
        LET exact == compared[1].exact.schedulable_tasks
            tolerant == compared[1].tolerant.schedulable_tasks
        IN  /\ Len(tolerant) >= Len(exact)
            /\ \A i \in 1..Len(exact) : tolerant[i] = exact[i]
            /\ \A e \in Executors : BoundIn(tolerant, e) >= BoundIn(exact, e)

\* With one stage to bind, the round with tolerance 0 bound one of its partitions and
\* the round with the tolerance bound that one and the other.
C31_Witness ==
    /\ compared # <<>>
    /\ OneStageBinds(compared[1].arguments)
    /\ compared[1].exact.result = "ok"
    /\ compared[1].tolerant.result = "ok"
    /\ Len(compared[1].exact.schedulable_tasks) = 1
    /\ Len(compared[1].tolerant.schedulable_tasks) = 2

\* ---- C32: when tolerance + 1 is at least the number of nodes in the ring, a
\* consistent-hash round that returns Ok binds as many tasks as the smaller of the
\* free slots at its start and the empty partitions of the running stages of running
\* jobs that are not skipped: no partition stays unbound while a node has a free slot.
ToBind(a) ==
    {<<js[1], js[2], p>> : js \in {ks \in JobStages :
                                      /\ JobIsRunning(ks[1])
                                      /\ a.scan_files[ks].ok
                                      /\ ~is_skip_consistent_hash(a.scan_files[ks].scans)},
                           p \in Partitions}
EmptyToBind(a) == {t \in ToBind(a) : task_infos[t[1]][t[2]][t[3]] = <<>>}
WholeRing(a) == a.tolerance + 1 >= Cardinality(Visible)
Held(b) == {j \in Jobs : lock[j] = b}
Waiting(b) ==
    /\ binder[b].pc = "next_job"
    /\ binder[b].active_jobs # <<>>
    /\ JobIsRunning(Head(binder[b].active_jobs))
    /\ lock[Head(binder[b].active_jobs)] # "free"
OneLockAtATime ==
    \A b \in Schedulers :
        /\ Cardinality(Held(b)) <= 1
        /\ binder[b].pc \in {"idle", "next_job", "commit", "done"} => Held(b) = {}
        /\ binder[b].pc \in {"fetch", "bind"} => Held(b) = {binder[b].job_id[1]}
        /\ Waiting(b) => ~Waiting(lock[Head(binder[b].active_jobs)])
C33_OneLockAndBothComplete ==
    /\ []OneLockAtATime
    /\ \A b \in Schedulers : (binder[b].pc # "idle") ~> (binder[b].pc = "done")

\* Two rounds visit the two jobs in opposite orders: each holds the lock of its first
\* job and has the other's still to visit.
C33_Witness ==
    /\ lock["job_a"] = "scheduler_1"
    /\ lock["job_b"] = "scheduler_2"
    /\ binder["scheduler_1"].active_jobs = <<"job_b">>
    /\ binder["scheduler_2"].active_jobs = <<"job_a">>

====
